---- MODULE Spec2Model ----
(***************************************************************************)
(* A model of Specter's main-process core: the connection manager          *)
(* (vm.handler.ts), the terminal session multiplexer and command tracker   *)
(* (terminal.handler.ts), the output analyzer (OutputAnalyzer.ts) and the  *)
(* attack-path progress store (database.handler.ts, analysis.handler.ts).  *)
(*                                                                         *)
(* The main process is single threaded: every IPC handler and every event  *)
(* callback runs to completion, so each is one atomic action.  What        *)
(* interleaves is the order of the handlers and of the events the ssh2     *)
(* library delivers (ready, error, close, channel data, channel close).    *)
(*                                                                         *)
(* Ten specifications share the variables.  SpecConn runs the             *)
(* connection manager, and SpecConnLive runs it with fairness of the       *)
(* events of a client; SpecSess runs it together with the creation and the *)
(* teardown of sessions; SpecWrite adds terminal:write and terminal:resize *)
(* to SpecSess, and SpecTest adds vm:test to it; SpecTerm runs the command *)
(* tracker of a session over an established connection, and SpecTermWrite  *)
(* adds terminal:write to it; SpecClose runs                               *)
(* sessions on a connection that the remote side closes, with fairness of  *)
(* the channel close callback; SpecPath runs the analyzer and the progress *)
(* store; SpecInput runs the input handling of the renderer's terminal     *)
(* manager.  The handlers of the tracker and of the store do not write the   *)
(* variables of the connection manager.                                    *)
(***************************************************************************)
EXTENDS Integers, Sequences, FiniteSets, TLC

(***************************************************************************)
(* Bounds of the model.                                                    *)
(***************************************************************************)
MaxClients == 3          \* ssh2 Client objects ever constructed
MaxTerminals == 2        \* terminal ids ever allocated
MaxNow == 2              \* the clock (Date.now()) runs from 1 to MaxNow
MaxChunks == 3           \* chunks received for commands, over all sessions
MaxCommands == 2         \* commands started, over all sessions
MaxSessClients == 2      \* ssh2 Client objects constructed in SpecSess
MaxSessTerminals == 1    \* terminal ids allocated in SpecSess
MaxTests == 1            \* vm:test calls ever made
MaxInput == 3            \* characters held in the inputBuffer of a managed terminal

ClientIds == 1..MaxClients
TermIds == 1..MaxTerminals
TestIds == 1..MaxTests

Null == "null"           \* JavaScript null, where the value is otherwise a name
Undef == "undefined"     \* JavaScript undefined / an absent field, likewise
NoClient == 0            \* null, where the value is otherwise a client id
NoTime == 0              \* null, where the value is otherwise a time (Date.now() > 0)
NoCommand == ""          \* null, where the value is otherwise a command (never empty)

VARIABLES
  \* ---- vm.handler.ts
  sshClient,             \* the module variable sshClient: a client id or NoClient
  vmStatus,              \* the module variable vmStatus
  connectionStartTime,   \* the module variable connectionStartTime
  client,                \* per constructed Client: its connection state
  clientAuth,            \* per constructed Client: the credential handed to connect()
  clientCfg,             \* per constructed Client: the vmConfig its handlers closed over
  connectPromise,        \* per vm:connect call (one per Client): the promise's state
  tests,                 \* per vm:test call: its testClient, its timer and its promise
  \* ---- terminal.handler.ts
  terminals,             \* the key set of the Map terminals
  session,               \* per terminal id: the TerminalSession object of the closure
                         \* (a blank one before terminal:create makes it)
  channel,               \* per terminal id: its ssh2 ClientChannel
  shellReq,              \* sshClient.shell() requests whose callback has not run
  command_logs,          \* rows of table command_logs, in insertion order
  flushed,               \* history: the calls of logCommandToDb, in order
  rx,                    \* history: per terminal, chunks received since its command started
  cmdSeq,                \* history: the number of commands started so far
  \* ---- OutputAnalyzer.ts, database.handler.ts, analysis.handler.ts
  targets,               \* table targets: rows (id, vault_id)
  targetMeta,            \* per target id: the parsed metadata column
  attack_path_progress,  \* table attack_path_progress: a set of rows
  \* ---- TerminalManager (renderer)
  managedTerminals,      \* per terminal id: its place in the manager's Map terminals and
                         \* the inputBuffer of its ManagedTerminal
  \* ---- shared
  now,                   \* Date.now()
  lastOp                 \* the last handler or callback run: arguments, result, and the
                         \* notifications it sent to the windows (events)

connVars == <<sshClient, vmStatus, connectionStartTime, client, clientAuth, clientCfg,
              connectPromise>>
termVars == <<terminals, session, channel, shellReq, command_logs, flushed, rx, cmdSeq>>
dbVars == <<targets, targetMeta, attack_path_progress>>
uiVars == <<managedTerminals>>
vars == <<connVars, tests, termVars, dbVars, uiVars, now, lastOp>>

(***************************************************************************)
(* vm.handler.ts: the connection manager.                                  *)
(***************************************************************************)

\* The merged vmConfig a vm:connect call sees: host, username, and whether a
\* private key path is configured and exists, whether a password is set.
VMConfigs ==
  { [host |-> "h1", username |-> "u1", keyFile |-> TRUE, password |-> TRUE] }

\* err.message of an ssh2 error event.
ErrMessages == {"AuthFailed", "Timeout"}

\* let vmStatus = { connected: false, connecting: false }
StatusIdle ==
  [connected |-> FALSE, connecting |-> FALSE, host |-> Undef, username |-> Undef,
   lastError |-> Undef]

\* vm:connect, before the handshake
StatusConnecting(cfg) ==
  [connected |-> FALSE, connecting |-> TRUE, host |-> cfg.host,
   username |-> cfg.username, lastError |-> Undef]

\* on('ready')
StatusConnected(cfg) ==
  [connected |-> TRUE, connecting |-> FALSE, host |-> cfg.host,
   username |-> cfg.username, lastError |-> Undef]

\* on('error')
StatusError(msg) ==
  [connected |-> FALSE, connecting |-> FALSE, host |-> Undef, username |-> Undef,
   lastError |-> msg]

\* on('close')
StatusClosed == StatusIdle

\* getStatus(): vmStatus plus the computed uptime.
getStatus(st, start, t) ==
  [connected |-> st.connected, connecting |-> st.connecting, host |-> st.host,
   username |-> st.username, lastError |-> st.lastError,
   uptime |-> IF start # NoTime THEN t - start ELSE NoTime]

\* broadcastStatus(): one vm:status-changed notification carrying getStatus().
broadcastStatus(st, start, t) ==
  [ev |-> "vm:status-changed", status |-> getStatus(st, start, t)]

\* Use private key or password: the credential put into connectConfig.
AuthOf(cfg) ==
  IF cfg.keyFile THEN "privateKey" ELSE IF cfg.password THEN "password" ELSE "none"

\* getSSHClient(): the client only while vmStatus.connected.
getSSHClient == IF sshClient # NoClient /\ vmStatus.connected THEN sshClient ELSE NoClient

\* A variant of isVMConnected that asks for a client instead of the connected flag.
isVMConnected_HasClient == sshClient # NoClient

\* isVMConnected()
isVMConnected == vmStatus.connected

\* vm:connect's early return: if (sshClient && vmStatus.connected)
AlreadyConnected == sshClient # NoClient /\ vmStatus.connected

\* new Client(): the next unused client id.
FreshClient ==
  CHOOSE c \in ClientIds : client[c] = "none" /\ \A d \in 1..(c-1) : client[d] # "none"

InitConn ==
  /\ sshClient = NoClient
  /\ vmStatus = StatusIdle
  /\ connectionStartTime = NoTime
  /\ client = [c \in ClientIds |-> "none"]
  /\ clientAuth = [c \in ClientIds |-> Undef]
  /\ clientCfg = [c \in ClientIds |-> Undef]
  /\ connectPromise = [c \in ClientIds |-> "none"]

\* vm:connect
VmConnect(cfg) ==
  /\ IF AlreadyConnected
     THEN /\ lastOp' = [op |-> "vm:connect", result |-> "AlreadyConnected",
                        created |-> NoClient, events |-> <<>>]
          /\ UNCHANGED connVars
     ELSE /\ \E c \in ClientIds : client[c] = "none"
          /\ LET c == FreshClient IN
               /\ vmStatus' = StatusConnecting(cfg)
               /\ sshClient' = c
               /\ client' = [client EXCEPT ![c] = "connecting"]
               /\ clientAuth' = [clientAuth EXCEPT ![c] = AuthOf(cfg)]
               /\ clientCfg' = [clientCfg EXCEPT ![c] = cfg]
               /\ connectPromise' = [connectPromise EXCEPT ![c] = "pending"]
               /\ lastOp' = [op |-> "vm:connect", result |-> "Pending", created |-> c,
                             events |-> <<broadcastStatus(vmStatus', connectionStartTime, now)>>]
               /\ UNCHANGED connectionStartTime
  /\ UNCHANGED <<tests, termVars, dbVars, uiVars, now>>

\* resolve(v) of the promise returned by the vm:connect call that made client c:
\* only the first call settles a promise.
Resolve(c, v) ==
  [connectPromise EXCEPT ![c] = IF @ = "pending" THEN v ELSE @]

\* sshClient.on('ready') of client c
OnReady(c) ==
  /\ client[c] = "connecting"
  /\ client' = [client EXCEPT ![c] = "ready"]
  /\ vmStatus' = StatusConnected(clientCfg[c])
  /\ connectionStartTime' = now
  /\ connectPromise' = Resolve(c, "success")
  /\ lastOp' = [op |-> "ready", client |-> c,
                events |-> <<broadcastStatus(vmStatus', connectionStartTime', now)>>]
  /\ UNCHANGED <<sshClient, clientAuth, clientCfg>>
  /\ UNCHANGED <<tests, termVars, dbVars, uiVars, now>>

\* sshClient.on('error') of client c.  ssh2 reports a failed handshake, a timeout
\* or a broken connection as an error event and then closes the connection: the
\* client is "failed" after an error of the attempt, "errored" after an error of
\* the established connection.
OnError(c, msg) ==
  /\ client[c] \in {"connecting", "ready"}
  /\ client' = [client EXCEPT ![c] = IF @ = "connecting" THEN "failed" ELSE "errored"]
  /\ vmStatus' = StatusError(msg)
  /\ connectPromise' = Resolve(c, "error")
  /\ lastOp' = [op |-> "error", client |-> c, message |-> msg,
                events |-> <<broadcastStatus(vmStatus', connectionStartTime, now)>>]
  /\ UNCHANGED <<sshClient, connectionStartTime, clientAuth, clientCfg>>
  /\ UNCHANGED <<tests, termVars, dbVars, uiVars, now>>

\* sshClient.on('close') of client c: after an error, after end(), or when the
\* remote side closes an established connection.
OnClose(c) ==
  /\ client[c] \in {"ready", "failed", "errored", "ending"}
  /\ client' = [client EXCEPT ![c] = "closed"]
  /\ vmStatus' = StatusClosed
  /\ connectionStartTime' = NoTime
  /\ lastOp' = [op |-> "close", client |-> c, was |-> client[c],
                events |-> <<broadcastStatus(vmStatus', connectionStartTime', now)>>]
  /\ UNCHANGED <<sshClient, clientAuth, clientCfg, connectPromise>>
  /\ UNCHANGED <<tests, termVars, dbVars, uiVars, now>>

\* sshClient.end(): a connecting or established connection starts closing.
EndClient(cl, c) ==
  [cl EXCEPT ![c] = IF @ \in {"connecting", "ready"} THEN "ending" ELSE @]

\* A variant of VmDisconnect that leaves connectionStartTime as it is.
VmDisconnect_KeepsStartTime ==
  /\ IF sshClient # NoClient
     THEN /\ client' = EndClient(client, sshClient)
          /\ sshClient' = NoClient
     ELSE UNCHANGED <<client, sshClient>>
  /\ vmStatus' = StatusIdle
  /\ lastOp' = [op |-> "vm:disconnect", result |-> "success", held |-> sshClient,
                events |-> <<broadcastStatus(vmStatus', connectionStartTime, now)>>]
  /\ UNCHANGED <<connectionStartTime, clientAuth, clientCfg, connectPromise>>
  /\ UNCHANGED <<tests, termVars, dbVars, uiVars, now>>

\* vm:disconnect; held is the client it found in sshClient
VmDisconnect ==
  /\ IF sshClient # NoClient
     THEN /\ client' = EndClient(client, sshClient)
          /\ sshClient' = NoClient
     ELSE UNCHANGED <<client, sshClient>>
  /\ vmStatus' = StatusIdle
  /\ connectionStartTime' = NoTime
  /\ lastOp' = [op |-> "vm:disconnect", result |-> "success", held |-> sshClient,
                events |-> <<broadcastStatus(vmStatus', connectionStartTime', now)>>]
  /\ UNCHANGED <<clientAuth, clientCfg, connectPromise>>
  /\ UNCHANGED <<tests, termVars, dbVars, uiVars, now>>

\* A vm:test call that was not made yet.
NoTest ==
  [client |-> "none", auth |-> Undef, timer |-> "none", promise |-> "none", ready |-> FALSE]

InitTests == tests = [k \in TestIds |-> NoTest]

\* vm:test: a testClient of its own starts to connect, and the 10 s timer is set.
VmTest(cfg) ==
  /\ \E k \in TestIds : tests[k].client = "none"
  /\ LET k == CHOOSE j \in TestIds :
                 tests[j].client = "none" /\ \A i \in 1..(j-1) : tests[i].client # "none"
     IN /\ tests' = [tests EXCEPT ![k] = [client |-> "connecting", auth |-> AuthOf(cfg),
                                          timer |-> "set", promise |-> "pending",
                                          ready |-> FALSE]]
        /\ lastOp' = [op |-> "vm:test", test |-> k, events |-> <<>>]
  /\ UNCHANGED <<connVars, termVars, dbVars, uiVars, now>>

\* A resolve that replaces the value of a settled promise.
ResolveTest_Overwrite(t, v) == [t EXCEPT !.promise = v]

\* resolve(v) of the promise of a vm:test call: only the first call settles it.
ResolveTest(t, v) == [t EXCEPT !.promise = IF @ = "pending" THEN v ELSE @]

\* clearTimeout(timeout)
ClearTimeout(t) == [t EXCEPT !.timer = IF @ = "set" THEN "cleared" ELSE @]

\* ssh2 emits ready once, when the handshake completes.  testClient.end() of the timer
\* sends the disconnect and half-closes the socket: a handshake that was completing
\* can still deliver its ready before the connection is gone.
ReadyCanArrive(t) ==
  /\ ~t.ready
  /\ \/ t.client = "connecting"
     \/ t.client = "ending" /\ t.timer = "fired"

\* A ready callback that reports the tested connection as the shared one.
TestReady_SetsStatus(k) ==
  /\ ReadyCanArrive(tests[k])
  /\ tests' = [tests EXCEPT ![k] =
                 [ResolveTest(ClearTimeout(@), "success") EXCEPT !.client = "ending",
                                                                 !.ready = TRUE]]
  /\ vmStatus' = [vmStatus EXCEPT !.connected = TRUE, !.connecting = FALSE]
  /\ lastOp' = [op |-> "test:ready", test |-> k, late |-> tests[k].client = "ending",
                events |-> <<>>]
  /\ UNCHANGED <<sshClient, connectionStartTime, client, clientAuth, clientCfg,
                 connectPromise, termVars, dbVars, uiVars, now>>

\* testClient.on('ready') of vm:test call k; late says that it comes after the timer
\* ended the client.
TestReady(k) ==
  /\ ReadyCanArrive(tests[k])
  /\ tests' = [tests EXCEPT ![k] =
                 [ResolveTest(ClearTimeout(@), "success") EXCEPT !.client = "ending",
                                                                 !.ready = TRUE]]
  /\ lastOp' = [op |-> "test:ready", test |-> k, late |-> tests[k].client = "ending",
                events |-> <<>>]
  /\ UNCHANGED <<connVars, termVars, dbVars, uiVars, now>>

\* testClient.on('error') of vm:test call k: the handshake failed, or the connection
\* broke while it was being ended.
TestError(k, msg) ==
  /\ tests[k].client \in {"connecting", "ending"}
  /\ tests' = [tests EXCEPT ![k] =
                 [ResolveTest(ClearTimeout(@), "error") EXCEPT !.client = "failed"]]
  /\ lastOp' = [op |-> "test:error", test |-> k, message |-> msg, events |-> <<>>]
  /\ UNCHANGED <<connVars, termVars, dbVars, uiVars, now>>

\* The 10 s timer of vm:test call k fires: testClient.end() and the timeout result.
TestTimeout(k) ==
  /\ tests[k].timer = "set"
  /\ tests' = [tests EXCEPT ![k] =
                 [ResolveTest(@, "timeout") EXCEPT
                    !.timer = "fired",
                    !.client = IF @ \in {"connecting", "ready"} THEN "ending" ELSE @]]
  /\ lastOp' = [op |-> "test:timeout", test |-> k, events |-> <<>>]
  /\ UNCHANGED <<connVars, termVars, dbVars, uiVars, now>>

\* Date.now() advances.
Tick ==
  /\ now < MaxNow
  /\ now' = now + 1
  /\ lastOp' = [op |-> "tick", events |-> <<>>]
  /\ UNCHANGED <<connVars, tests, termVars, dbVars, uiVars>>

(***************************************************************************)
(* Strings.  A command is a sequence of characters.  Terminal output is a  *)
(* run-length encoded string, a sequence of runs (character, count), so    *)
(* that output longer than the 10,000 characters kept by logCommandToDb    *)
(* is within reach of the model; a text is kept normalised (no empty run,  *)
(* no two adjacent runs of the same character), so equal strings are equal *)
(* values.                                                                 *)
(***************************************************************************)
Run(c, k) == [ch |-> c, n |-> k]

RECURSIVE Norm(_)
Norm(t) ==
  IF t = <<>> THEN <<>>
  ELSE LET rest == Norm(Tail(t)) IN
       IF t[1].n = 0 THEN rest
       ELSE IF rest # <<>> /\ rest[1].ch = t[1].ch
            THEN <<Run(t[1].ch, t[1].n + rest[1].n)>> \o Tail(rest)
            ELSE <<t[1]>> \o rest

\* The text of a sequence of characters.
Text(chars) == Norm([i \in 1..Len(chars) |-> Run(chars[i], 1)])

\* a + b
TConcat(a, b) == Norm(a \o b)

\* s.length
RECURSIVE TLen(_)
TLen(t) == IF t = <<>> THEN 0 ELSE t[1].n + TLen(Tail(t))

\* A slice that keeps the first k characters: s.slice(0, k).
RECURSIVE SliceLast_First(_, _)
SliceLast_First(t, k) ==
  IF t = <<>> \/ k <= 0 THEN <<>>
  ELSE LET r == t[1] IN
       IF r.n >= k THEN <<Run(r.ch, k)>>
       ELSE <<r>> \o SliceLast_First(Tail(t), k - r.n)

\* s.slice(-k), k > 0: the last k characters, the whole string when it is shorter.
RECURSIVE SliceLast(_, _)
SliceLast(t, k) ==
  IF t = <<>> \/ k <= 0 THEN <<>>
  ELSE LET r == t[Len(t)] IN
       IF r.n >= k THEN <<Run(r.ch, k)>>
       ELSE SliceLast(SubSeq(t, 1, Len(t) - 1), k - r.n) \o <<r>>

\* s.includes(p) for a text s and a non-empty text p.
TIncludes(t, p) ==
  LET k == Len(p) IN
  \E i \in 1..(Len(t) - k + 1) :
    \A j \in 1..k :
      /\ t[i + j - 1].ch = p[j].ch
      /\ IF j = 1 \/ j = k THEN t[i + j - 1].n >= p[j].n ELSE t[i + j - 1].n = p[j].n

\* s.includes(p) for sequences of characters.
Includes(s, p) ==
  \E i \in 0..(Len(s) - Len(p)) : SubSeq(s, i + 1, i + Len(p)) = p

\* toLowerCase() of the letters the model's commands use.
LowerChar(c) ==
  CASE c = "A" -> "a" [] c = "B" -> "b" [] c = "C" -> "c" [] c = "D" -> "d"
    [] c = "E" -> "e" [] c = "F" -> "f" [] c = "G" -> "g" [] c = "H" -> "h"
    [] c = "I" -> "i" [] c = "J" -> "j" [] c = "K" -> "k" [] c = "L" -> "l"
    [] c = "M" -> "m" [] c = "N" -> "n" [] c = "O" -> "o" [] c = "P" -> "p"
    [] c = "Q" -> "q" [] c = "R" -> "r" [] c = "S" -> "s" [] c = "T" -> "t"
    [] c = "U" -> "u" [] c = "V" -> "v" [] c = "W" -> "w" [] c = "X" -> "x"
    [] c = "Y" -> "y" [] c = "Z" -> "z" [] OTHER -> c

toLowerCase(s) == [i \in 1..Len(s) |-> LowerChar(s[i])]

\* The command texts the renderer logs (trimmed, never empty).
Commands == {"nmap -sV 10.0.0.1", "whoami"}

\* The characters of a command text.
CommandChars(command) ==
  CASE command = "nmap -sV 10.0.0.1" ->
         <<"n", "m", "a", "p", " ", "-", "s", "V", " ", "1", "0", ".", "0", ".", "0", ".", "1">>
    [] command = "whoami" ->
         <<"w", "h", "o", "a", "m", "i">>
    [] command = "find / -perm -4000 -name suid" ->
         <<"f", "i", "n", "d", " ", "/", " ", "-", "p", "e", "r", "m", " ", "-", "4", "0", "0",
           "0", " ", "-", "n", "a", "m", "e", " ", "s", "u", "i", "d">>

\* categorizeCommand: const categories, in declaration order
categories ==
  <<
     [name |-> "recon", patterns |-> <<
        <<"n", "m", "a", "p">>, <<"m", "a", "s", "s", "c", "a", "n">>,
        <<"r", "u", "s", "t", "s", "c", "a", "n">>, <<"p", "i", "n", "g">>,
        <<"t", "r", "a", "c", "e", "r", "o", "u", "t", "e">>, <<"w", "h", "o", "i", "s">>,
        <<"d", "i", "g">>, <<"h", "o", "s", "t">> >>],
     [name |-> "web", patterns |-> <<
        <<"g", "o", "b", "u", "s", "t", "e", "r">>, <<"f", "f", "u", "f">>,
        <<"d", "i", "r", "b">>, <<"n", "i", "k", "t", "o">>, <<"w", "f", "u", "z", "z">>,
        <<"s", "q", "l", "m", "a", "p">>, <<"b", "u", "r", "p">>, <<"c", "u", "r", "l">>,
        <<"w", "g", "e", "t">> >>],
     [name |-> "enum", patterns |-> <<
        <<"e", "n", "u", "m", "4", "l", "i", "n", "u", "x">>,
        <<"s", "m", "b", "c", "l", "i", "e", "n", "t">>,
        <<"r", "p", "c", "c", "l", "i", "e", "n", "t">>,
        <<"l", "d", "a", "p", "s", "e", "a", "r", "c", "h">>,
        <<"b", "l", "o", "o", "d", "h", "o", "u", "n", "d">>,
        <<"c", "r", "a", "c", "k", "m", "a", "p", "e", "x", "e", "c">> >>],
     [name |-> "exploit", patterns |-> <<
        <<"m", "s", "f", "c", "o", "n", "s", "o", "l", "e">>,
        <<"s", "e", "a", "r", "c", "h", "s", "p", "l", "o", "i", "t">>,
        <<"e", "x", "p", "l", "o", "i", "t">>, <<"p", "a", "y", "l", "o", "a", "d">> >>],
     [name |-> "privesc", patterns |-> <<
        <<"l", "i", "n", "p", "e", "a", "s">>, <<"w", "i", "n", "p", "e", "a", "s">>,
        <<"l", "i", "n", "e", "n", "u", "m">>, <<"s", "u", "d", "o">>,
        <<"f", "i", "n", "d", ".", "*", "s", "u", "i", "d">> >>],
     [name |-> "lateral", patterns |-> <<
        <<"p", "s", "e", "x", "e", "c">>, <<"w", "m", "i", "e", "x", "e", "c">>,
        <<"e", "v", "i", "l", "-", "w", "i", "n", "r", "m">>, <<"s", "s", "h">>,
        <<"r", "d", "p">> >>],
     [name |-> "creds", patterns |-> <<
        <<"h", "a", "s", "h", "c", "a", "t">>, <<"j", "o", "h", "n">>,
        <<"h", "y", "d", "r", "a">>, <<"m", "e", "d", "u", "s", "a">>,
        <<"c", "r", "a", "c", "k", "m", "a", "p", "e", "x", "e", "c">> >>],
     [name |-> "general", patterns |-> <<
        <<"l", "s">>, <<"c", "d">>, <<"c", "a", "t">>, <<"g", "r", "e", "p">>,
        <<"f", "i", "n", "d">>, <<"p", "s">>, <<"n", "e", "t", "s", "t", "a", "t">> >>]
  >>

\* detectAttackPath: const paths, in declaration order
paths ==
  <<
     [name |-> "auth", patterns |-> <<
        <<"l", "o", "g", "i", "n">>, <<"a", "u", "t", "h">>,
        <<"s", "e", "s", "s", "i", "o", "n">>, <<"t", "o", "k", "e", "n">>, <<"j", "w", "t">>,
        <<"o", "a", "u", "t", "h">> >>],
     [name |-> "access_control", patterns |-> <<
        <<"i", "d", "o", "r">>, <<"b", "o", "l", "a">>,
        <<"p", "r", "i", "v", "i", "l", "e", "g", "e">>, <<"r", "o", "l", "e">>,
        <<"p", "e", "r", "m", "i", "s", "s", "i", "o", "n">> >>],
     [name |-> "input", patterns |-> <<
        <<"s", "q", "l", "i">>, <<"x", "s", "s">>, <<"s", "s", "t", "i">>,
        <<"i", "n", "j", "e", "c", "t", "i", "o", "n">>, <<"s", "q", "l", "m", "a", "p">> >>],
     [name |-> "file", patterns |-> <<
        <<"u", "p", "l", "o", "a", "d">>, <<"l", "f", "i">>, <<"r", "f", "i">>,
        <<"f", "i", "l", "e">>, <<"p", "a", "t", "h">> >>],
     [name |-> "ssrf", patterns |-> <<
        <<"s", "s", "r", "f">>, <<"s", "e", "r", "v", "e", "r", "-", "s", "i", "d", "e">>,
        <<"i", "n", "t", "e", "r", "n", "a", "l">> >>],
     [name |-> "enumeration", patterns |-> <<
        <<"e", "n", "u", "m">>, <<"s", "c", "a", "n">>,
        <<"d", "i", "s", "c", "o", "v", "e", "r">>, <<"r", "e", "c", "o", "n">> >>],
     [name |-> "kerberos", patterns |-> <<
        <<"k", "e", "r", "b">>, <<"s", "p", "n">>, <<"t", "i", "c", "k", "e", "t">>,
        <<"a", "s", "r", "e", "p">>, <<"t", "g", "t">> >>],
     [name |-> "lateral", patterns |-> <<
        <<"l", "a", "t", "e", "r", "a", "l">>, <<"p", "i", "v", "o", "t">>,
        <<"p", "s", "e", "x", "e", "c">>, <<"w", "m", "i">> >>],
     [name |-> "privesc", patterns |-> <<
        <<"p", "r", "i", "v", "e", "s", "c">>, <<"p", "r", "i", "v", "i", "l", "e", "g", "e">>,
        <<"r", "o", "o", "t">>, <<"a", "d", "m", "i", "n">>, <<"s", "y", "s", "t", "e", "m">> >>]
  >>

\* new RegExp(pattern).test(cmd).  Every pattern of the table is a literal word,
\* for which the regular expression finds what includes() finds, except
\* "find.*suid": "find", then any characters but line terminators, then "suid".
RegExpTest(pattern, cmd) ==
  IF pattern = <<"f", "i", "n", "d", ".", "*", "s", "u", "i", "d">>
  THEN \E i \in 0..(Len(cmd) - 4) :
         /\ SubSeq(cmd, i + 1, i + 4) = <<"f", "i", "n", "d">>
         /\ \E j \in (i + 4)..(Len(cmd) - 4) :
              /\ SubSeq(cmd, j + 1, j + 4) = <<"s", "u", "i", "d">>
              /\ \A k \in (i + 5)..j : cmd[k] \notin {"\n", "\r"}
  ELSE Includes(cmd, pattern)

\* patterns.some((pattern) => cmd.includes(pattern) || new RegExp(pattern).test(cmd))
CategoryMatches(entry, cmd) ==
  \E k \in 1..Len(entry.patterns) :
    Includes(cmd, entry.patterns[k]) \/ RegExpTest(entry.patterns[k], cmd)

\* categorizeCommand(command): the first category with a matching pattern.
categorizeCommand(command) ==
  LET cmd == toLowerCase(CommandChars(command))
      hits == {i \in 1..Len(categories) : CategoryMatches(categories[i], cmd)}
  IN IF hits = {} THEN "other"
     ELSE categories[CHOOSE i \in hits : \A j \in hits : i <= j].name

\* detectAttackPath(command): the first path with an included pattern, or null.
detectAttackPath(command) ==
  LET cmd == toLowerCase(CommandChars(command))
      hits == {i \in 1..Len(paths) :
                 \E k \in 1..Len(paths[i].patterns) : Includes(cmd, paths[i].patterns[k])}
  IN IF hits = {} THEN Null
     ELSE paths[CHOOSE i \in hits : \A j \in hits : i <= j].name


(***************************************************************************)
(* terminal.handler.ts: sessions and the command tracker.                  *)
(***************************************************************************)

\* The characters \s matches among those of the model's chunks.
Whitespace == {" ", "\t", "\n", "\r"}

\* The characters . does not match.
LineTerminators == {"\n", "\r"}

\* The text without its trailing whitespace: what precedes \s*$.
RECURSIVE StripTrailing(_)
StripTrailing(t) ==
  IF t # <<>> /\ t[Len(t)].ch \in Whitespace
  THEN StripTrailing(SubSeq(t, 1, Len(t) - 1))
  ELSE t

\* /c\s*$/ for a character c
EndsWithChar(t, c) ==
  LET s == StripTrailing(t) IN s # <<>> /\ s[Len(s)].ch = c

\* /bc\s*$/ for two different characters b and c
EndsWithPair(t, b, c) ==
  LET s == StripTrailing(t) IN
  /\ Len(s) >= 2
  /\ s[Len(s)] = Run(c, 1)
  /\ s[Len(s) - 1].ch = b

\* /@.*:\s*\$\s*$/
EndsWithUserPrompt(t) ==
  LET s == StripTrailing(t) IN
  /\ s # <<>>
  /\ s[Len(s)] = Run("$", 1)
  /\ LET u == StripTrailing(SubSeq(s, 1, Len(s) - 1)) IN
     /\ u # <<>>
     /\ u[Len(u)].ch = ":"
     /\ \E i \in 1..(Len(u) - 1) :
          /\ u[i].ch = "@"
          /\ \A j \in (i + 1)..(Len(u) - 1) : u[j].ch \notin LineTerminators

\* The box-drawing characters of the Kali prompt, U+250C, U+2500 and U+2514.
BoxDownRight == "U+250C"
BoxHorizontal == "U+2500"
BoxUpRight == "U+2514"

\* The literal parts of the prompt patterns.
KaliBoxTop == Text(<<BoxDownRight, BoxHorizontal, BoxHorizontal, "(">>)
KaliBoxBottom == Text(<<BoxUpRight, BoxHorizontal, "$">>)
KaliAt == Text(<<"k", "a", "l", "i", "@">>)
RootAt == Text(<<"r", "o", "o", "t", "@">>)

\* detectPrompt(text): promptPatterns.some((pattern) => pattern.test(text))
detectPrompt(text) ==
  \/ EndsWithChar(text, "$")             \* /\$\s*$/
  \/ EndsWithChar(text, "#")             \* /#\s*$/
  \/ EndsWithChar(text, ">")             \* />\s*$/
  \/ TIncludes(text, KaliBoxTop)         \* the box-drawing corner, two bars, "("
  \/ TIncludes(text, KaliBoxBottom)      \* the box-drawing corner, one bar, "$"
  \/ EndsWithPair(text, "]", "$")        \* /\]\$\s*$/
  \/ EndsWithPair(text, "]", "#")        \* /\]#\s*$/
  \/ EndsWithUserPrompt(text)            \* /@.*:\s*\$\s*$/
  \/ TIncludes(text, KaliAt)             \* /kali@/
  \/ TIncludes(text, RootAt)             \* /root@/

\* output.slice(-10000): the characters of the output kept in command_logs.
OutputLimit == 10000

\* const session: TerminalSession = { ... } of terminal:create
NewSession(vaultId) ==
  [vaultId |-> vaultId, outputBuffer |-> <<>>, pendingCommand |-> NoCommand,
   commandStartTime |-> NoTime]

\* if (session.pendingCommand): neither null nor the empty string
HasPending(s) == s.pendingCommand # NoCommand

\* A variant of CanLog that also asks for captured output.
CanLog_NeedsOutput(s) ==
  s.pendingCommand # NoCommand /\ s.commandStartTime # NoTime /\ s.outputBuffer # <<>>

\* logCommandComplete's guard: it returns at once unless both are truthy.
CanLog(s) == s.pendingCommand # NoCommand /\ s.commandStartTime # NoTime

\* SELECT id FROM targets WHERE vault_id = ? LIMIT 1
TargetOfVault(vaultId) ==
  LET ids == {r.id : r \in {q \in targets : q.vault_id = vaultId}} IN
  IF ids = {} THEN Undef ELSE CHOOSE id \in ids : TRUE

\* categorizeCommand and detectAttackPath of the model's commands, tabulated.
CommandCategory == [command \in Commands |-> categorizeCommand(command)]
CommandAttackPath == [command \in Commands |-> detectAttackPath(command)]

\* A logCommandToDb that stores the record without a target when the vault has none.
logCommandToDb_NullTarget(vaultId, command, output, duration) ==
  << [target_id |-> TargetOfVault(vaultId), command |-> command,
      output |-> SliceLast(output, OutputLimit),
      category |-> CommandCategory[command],
      attack_path |-> CommandAttackPath[command],
      duration_ms |-> duration] >>

\* logCommandToDb(vaultId, command, output, duration): the rows it inserts.
logCommandToDb(vaultId, command, output, duration) ==
  LET target == TargetOfVault(vaultId) IN
  IF target # Undef
  THEN << [target_id |-> target, command |-> command,
           output |-> SliceLast(output, OutputLimit),
           category |-> CommandCategory[command],
           attack_path |-> CommandAttackPath[command],
           duration_ms |-> duration] >>
  ELSE <<>>

\* logCommandComplete(session): the rows written to command_logs.
CompletedRows(s, t) ==
  IF CanLog(s)
  THEN logCommandToDb(s.vaultId, s.pendingCommand, s.outputBuffer, t - s.commandStartTime)
  ELSE <<>>

\* A logCommandComplete that stores the command and leaves it pending.
logCommandComplete_KeepsPending(s) == s

\* logCommandComplete(session): the session afterwards (// Reset).
logCommandComplete(s) ==
  IF CanLog(s)
  THEN [s EXCEPT !.pendingCommand = NoCommand, !.commandStartTime = NoTime,
                  !.outputBuffer = <<>>]
  ELSE s

\* History of logCommandComplete(session) for terminal id: the call of logCommandToDb
\* it makes, with the chunks the session received for the command and the call site.
\* row is the index of the row it inserts into command_logs, 0 when it inserts none.
CompletedCalls(id, s, t, r, site) ==
  IF CanLog(s)
  THEN << [cmd |-> r.cmd, terminal |-> id, vaultId |-> s.vaultId,
           command |-> s.pendingCommand, output |-> s.outputBuffer,
           duration |-> t - s.commandStartTime, chunks |-> r.chunks,
           row |-> IF CompletedRows(s, t) # <<>> THEN Len(command_logs) + 1 ELSE 0,
           site |-> site] >>
  ELSE <<>>

\* A variant of Accumulate that keeps only the newest text.
Accumulate_Replace(s, text) == [s EXCEPT !.outputBuffer = text]

\* A variant of Accumulate that puts the new text in front of the buffer.
Accumulate_Prepend(s, text) == [s EXCEPT !.outputBuffer = TConcat(text, @)]

\* session.outputBuffer += text
Accumulate(s, text) == [s EXCEPT !.outputBuffer = TConcat(@, text)]

\* History: no command is being tracked.
NoChunks == [cmd |-> 0, chunks |-> <<>>]

\* uuidv4() of terminal:create: the next unused terminal id.
FreshTerminal ==
  CHOOSE t \in TermIds : channel[t].state = "none" /\ \A u \in 1..(t-1) : channel[u].state # "none"

\* The vaults a session can be opened for: v1 has a target, v2 has none.
VaultIds == {"v1", "v2"}

InitTerm ==
  /\ terminals = {}
  /\ session = [t \in TermIds |-> NewSession(Undef)]
  /\ channel = [t \in TermIds |-> [state |-> "none", client |-> NoClient]]
  /\ shellReq = {}
  /\ command_logs = <<>>
  /\ flushed = <<>>
  /\ rx = [t \in TermIds |-> NoChunks]
  /\ cmdSeq = 0

\* terminal:create, up to the call of sshClient.shell().  shell() on a client that
\* is not connected throws, and the handler's promise rejects.
TerminalCreate(vaultId) ==
  /\ IF ~isVMConnected
     THEN /\ lastOp' = [op |-> "terminal:create", vaultId |-> vaultId,
                        result |-> "NotConnected", events |-> <<>>]
          /\ UNCHANGED <<channel, shellReq>>
     ELSE IF getSSHClient = NoClient
     THEN /\ lastOp' = [op |-> "terminal:create", vaultId |-> vaultId,
                        result |-> "ClientNotAvailable", events |-> <<>>]
          /\ UNCHANGED <<channel, shellReq>>
     ELSE /\ \E t \in TermIds : channel[t].state = "none"
          /\ LET t == FreshTerminal IN
             IF client[sshClient] = "ready"
             THEN /\ shellReq' = shellReq \cup
                       {[terminalId |-> t, vaultId |-> vaultId, client |-> sshClient]}
                  /\ channel' = [channel EXCEPT ![t] = [state |-> "opening", client |-> sshClient]]
                  /\ lastOp' = [op |-> "terminal:create", vaultId |-> vaultId,
                                result |-> "Pending", events |-> <<>>]
             ELSE /\ channel' = [channel EXCEPT ![t] = [state |-> "failed", client |-> sshClient]]
                  /\ lastOp' = [op |-> "terminal:create", vaultId |-> vaultId,
                                result |-> "Throws", events |-> <<>>]
                  /\ UNCHANGED shellReq
  /\ UNCHANGED <<terminals, session, command_logs, flushed, rx, cmdSeq>>
  /\ UNCHANGED <<connVars, tests, dbVars, uiVars, now>>

\* The callback of sshClient.shell() with a channel: the session is registered.
ShellOpened(req) ==
  /\ req \in shellReq
  /\ client[req.client] = "ready"
  /\ shellReq' = shellReq \ {req}
  /\ session' = [session EXCEPT ![req.terminalId] = NewSession(req.vaultId)]
  /\ terminals' = terminals \cup {req.terminalId}
  /\ channel' = [channel EXCEPT ![req.terminalId].state = "open"]
  /\ lastOp' = [op |-> "shell:callback", terminalId |-> req.terminalId,
                result |-> "success", events |-> <<>>]
  /\ UNCHANGED <<command_logs, flushed, rx, cmdSeq>>
  /\ UNCHANGED <<connVars, tests, dbVars, uiVars, now>>

\* The callback of sshClient.shell() with an error: nothing is registered.
ShellFailed(req) ==
  /\ req \in shellReq
  /\ shellReq' = shellReq \ {req}
  /\ channel' = [channel EXCEPT ![req.terminalId].state = "failed"]
  /\ lastOp' = [op |-> "shell:callback", terminalId |-> req.terminalId,
                result |-> "error", events |-> <<>>]
  /\ UNCHANGED <<terminals, session, command_logs, flushed, rx, cmdSeq>>
  /\ UNCHANGED <<connVars, tests, dbVars, uiVars, now>>


\* "up\n": a line of command output
ChunkLine == Text(<<"u", "p", "\n">>)

\* 6,000 characters of command output
ChunkBig == <<Run("x", 6000)>>

\* "$ ": the shell prompt
ChunkPrompt == Text(<<"$", " ">>)

\* The chunks a channel delivers.
Chunks == {ChunkLine, ChunkBig, ChunkPrompt}

\* broadcastData(terminalId, text)
broadcastData(id, text) == [ev |-> "terminal:data", terminalId |-> id, data |-> text]

\* broadcastExit(terminalId)
broadcastExit(id) == [ev |-> "terminal:exit", terminalId |-> id]

\* History: the number of chunks received for commands so far.
\* detectPrompt(text) of each chunk of the model, computed once.
ChunkIsPrompt == [text \in Chunks |-> detectPrompt(text)]

RECURSIVE FlushedChunks(_)
FlushedChunks(f) == IF f = <<>> THEN 0 ELSE Len(f[1].chunks) + FlushedChunks(Tail(f))

RECURSIVE PendingChunks(_)
PendingChunks(ids) ==
  IF ids = {} THEN 0
  ELSE LET t == CHOOSE u \in ids : TRUE IN Len(rx[t].chunks) + PendingChunks(ids \ {t})

ChunksSoFar == FlushedChunks(flushed) + PendingChunks(TermIds)

\* A channel delivers data while it is open, also after close() was requested.
ChannelLive(t) == channel[t].state \in {"open", "closing"}

\* A data callback that accumulates into every session with a pending command, as a
\* buffer shared by the sessions would.
ChannelData_SharedBuffer(t, text) ==
  /\ ChannelLive(t)
  /\ LET s == session[t]
         tracked == HasPending(s)
         s1 == IF tracked THEN Accumulate(s, text) ELSE s
         r1 == IF tracked THEN [rx[t] EXCEPT !.chunks = Append(@, text)] ELSE rx[t]
         done == tracked /\ ChunkIsPrompt[text]
     IN
     /\ tracked => ChunksSoFar < MaxChunks
     /\ session' = [u \in TermIds |->
                      IF u = t THEN (IF done THEN logCommandComplete(s1) ELSE s1)
                      ELSE IF HasPending(session[u]) THEN Accumulate(session[u], text)
                      ELSE session[u]]
     /\ command_logs' = IF done THEN command_logs \o CompletedRows(s1, now) ELSE command_logs
     /\ flushed' = IF done THEN flushed \o CompletedCalls(t, s1, now, r1, "data") ELSE flushed
     /\ rx' = [rx EXCEPT ![t] = IF done THEN NoChunks ELSE r1]
     /\ lastOp' = [op |-> "channel:data", terminalId |-> t, data |-> text,
                   events |-> <<broadcastData(t, text)>>, analyzed |-> <<>>]
  /\ UNCHANGED <<terminals, channel, shellReq, cmdSeq>>
  /\ UNCHANGED <<connVars, tests, dbVars, uiVars, now>>

\* channel.on('data') of terminal t; analyzed is what the callback passes to the
\* output analyzer: the handler has no call of it.
ChannelData(t, text) ==
  /\ ChannelLive(t)
  /\ LET s == session[t]
         tracked == HasPending(s)
         s1 == IF tracked THEN Accumulate(s, text) ELSE s
         r1 == IF tracked THEN [rx[t] EXCEPT !.chunks = Append(@, text)] ELSE rx[t]
         done == tracked /\ ChunkIsPrompt[text]
     IN
     /\ tracked => ChunksSoFar < MaxChunks
     /\ session' = [session EXCEPT ![t] = IF done THEN logCommandComplete(s1) ELSE s1]
     /\ command_logs' = IF done THEN command_logs \o CompletedRows(s1, now) ELSE command_logs
     /\ flushed' = IF done THEN flushed \o CompletedCalls(t, s1, now, r1, "data") ELSE flushed
     /\ rx' = [rx EXCEPT ![t] = IF done THEN NoChunks ELSE r1]
     /\ lastOp' = [op |-> "channel:data", terminalId |-> t, data |-> text,
                   events |-> <<broadcastData(t, text)>>, analyzed |-> <<>>]
  /\ UNCHANGED <<terminals, channel, shellReq, cmdSeq>>
  /\ UNCHANGED <<connVars, tests, dbVars, uiVars, now>>

\* A stderr callback that captures the chunk whether or not a command is pending.
StderrData_AlwaysCaptures(t, text) ==
  /\ ChannelLive(t)
  /\ ChunksSoFar < MaxChunks
  /\ session' = [session EXCEPT ![t] = Accumulate(@, text)]
  /\ rx' = [rx EXCEPT ![t] = [@ EXCEPT !.chunks = Append(@, text)]]
  /\ lastOp' = [op |-> "channel:stderr", terminalId |-> t, data |-> text,
                events |-> <<broadcastData(t, text)>>, analyzed |-> <<>>]
  /\ UNCHANGED <<terminals, channel, shellReq, command_logs, flushed, cmdSeq>>
  /\ UNCHANGED <<connVars, tests, dbVars, uiVars, now>>

\* channel.stderr.on('data') of terminal t
StderrData(t, text) ==
  /\ ChannelLive(t)
  /\ LET s == session[t]
         tracked == HasPending(s)
     IN
     /\ tracked => ChunksSoFar < MaxChunks
     /\ session' = [session EXCEPT ![t] = IF tracked THEN Accumulate(s, text) ELSE s]
     /\ rx' = [rx EXCEPT ![t] = IF tracked THEN [@ EXCEPT !.chunks = Append(@, text)] ELSE @]
     /\ lastOp' = [op |-> "channel:stderr", terminalId |-> t, data |-> text,
                   events |-> <<broadcastData(t, text)>>, analyzed |-> <<>>]
  /\ UNCHANGED <<terminals, channel, shellReq, command_logs, flushed, cmdSeq>>
  /\ UNCHANGED <<connVars, tests, dbVars, uiVars, now>>

\* A terminal:logCommand that starts the new command without completing the one
\* that is pending.
LogCommand_NoFlush(id, command) ==
  /\ IF id \notin terminals
     THEN /\ lastOp' = [op |-> "terminal:logCommand", terminalId |-> id,
                        command |-> command, result |-> "TerminalNotFound", events |-> <<>>]
          /\ UNCHANGED <<session, rx, cmdSeq>>
     ELSE /\ cmdSeq < MaxCommands
          /\ session' = [session EXCEPT ![id] =
                           [@ EXCEPT !.pendingCommand = command,
                                     !.commandStartTime = now,
                                     !.outputBuffer = <<>>]]
          /\ cmdSeq' = cmdSeq + 1
          /\ rx' = [rx EXCEPT ![id] = [cmd |-> cmdSeq + 1, chunks |-> <<>>]]
          /\ lastOp' = [op |-> "terminal:logCommand", terminalId |-> id,
                        command |-> command, result |-> "success", events |-> <<>>]
  /\ UNCHANGED <<terminals, channel, shellReq, command_logs, flushed>>
  /\ UNCHANGED <<connVars, tests, dbVars, uiVars, now>>

\* terminal:logCommand
LogCommand(id, command) ==
  /\ IF id \notin terminals
     THEN /\ lastOp' = [op |-> "terminal:logCommand", terminalId |-> id,
                        command |-> command, result |-> "TerminalNotFound", events |-> <<>>]
          /\ UNCHANGED <<session, command_logs, flushed, rx, cmdSeq>>
     ELSE /\ cmdSeq < MaxCommands
          /\ LET s == session[id]
                 pending == HasPending(s)
                 s1 == IF pending THEN logCommandComplete(s) ELSE s
             IN
             /\ session' = [session EXCEPT ![id] =
                              [s1 EXCEPT !.pendingCommand = command,
                                         !.commandStartTime = now,
                                         !.outputBuffer = <<>>]]
             /\ command_logs' = IF pending THEN command_logs \o CompletedRows(s, now)
                                ELSE command_logs
             /\ flushed' = IF pending
                           THEN flushed \o CompletedCalls(id, s, now, rx[id], "logCommand")
                           ELSE flushed
          /\ cmdSeq' = cmdSeq + 1
          /\ rx' = [rx EXCEPT ![id] = [cmd |-> cmdSeq + 1, chunks |-> <<>>]]
          /\ lastOp' = [op |-> "terminal:logCommand", terminalId |-> id,
                        command |-> command, result |-> "success", events |-> <<>>]
  /\ UNCHANGED <<terminals, channel, shellReq>>
  /\ UNCHANGED <<connVars, tests, dbVars, uiVars, now>>

\* Data the renderer writes, and window sizes <<cols, rows>> it sets.
Inputs == {"ls"}
WindowSizes == {<<80, 24>>}

\* A lookup that finds a session under every id.
HasSession_Always(id) == TRUE

\* terminals.get(terminalId) gives a session, and the session has its channel (a
\* session is registered with its channel).
HasSession(id) == id \in terminals

\* A terminal:write that also takes the data written as output of the pending command.
TerminalWrite_Tracks(id, data) ==
  /\ lastOp' = IF ~HasSession(id)
               THEN [op |-> "terminal:write", terminalId |-> id, data |-> data,
                     result |-> "TerminalNotFound", sent |-> <<>>, events |-> <<>>]
               ELSE [op |-> "terminal:write", terminalId |-> id, data |-> data,
                     result |-> "success",
                     sent |-> <<[channel |-> id, call |-> "write", args |-> <<data>>]>>,
                     events |-> <<>>]
  /\ session' = IF HasSession(id) /\ HasPending(session[id])
                THEN [session EXCEPT ![id] = Accumulate(@, ChunkLine)]
                ELSE session
  /\ UNCHANGED <<terminals, channel, shellReq, command_logs, flushed, rx, cmdSeq>>
  /\ UNCHANGED <<connVars, tests, dbVars, uiVars, now>>

\* terminal:write; sent is what is called on the session's channel.
TerminalWrite(id, data) ==
  /\ lastOp' = IF ~HasSession(id)
               THEN [op |-> "terminal:write", terminalId |-> id, data |-> data,
                     result |-> "TerminalNotFound", sent |-> <<>>, events |-> <<>>]
               ELSE [op |-> "terminal:write", terminalId |-> id, data |-> data,
                     result |-> "success",
                     sent |-> <<[channel |-> id, call |-> "write", args |-> <<data>>]>>,
                     events |-> <<>>]
  /\ UNCHANGED <<terminals, session, channel, shellReq, command_logs, flushed, rx, cmdSeq>>
  /\ UNCHANGED <<connVars, tests, dbVars, uiVars, now>>

\* terminal:resize
TerminalResize(id, cols, rows) ==
  /\ lastOp' = IF ~HasSession(id)
               THEN [op |-> "terminal:resize", terminalId |-> id,
                     result |-> "TerminalNotFound", sent |-> <<>>, events |-> <<>>]
               ELSE [op |-> "terminal:resize", terminalId |-> id, result |-> "success",
                     sent |-> <<[channel |-> id, call |-> "setWindow",
                                 args |-> <<rows, cols, 0, 0>>]>>,
                     events |-> <<>>]
  /\ UNCHANGED <<terminals, session, channel, shellReq, command_logs, flushed, rx, cmdSeq>>
  /\ UNCHANGED <<connVars, tests, dbVars, uiVars, now>>

\* channel.close(): an open channel starts closing.
CloseChannel(ch, id) ==
  [ch EXCEPT ![id].state = IF @ = "open" THEN "closing" ELSE @]

\* terminal:close
TerminalClose(id) ==
  /\ channel' = IF id \in terminals THEN CloseChannel(channel, id) ELSE channel
  /\ terminals' = terminals \ {id}
  /\ lastOp' = [op |-> "terminal:close", terminalId |-> id, result |-> "success",
                events |-> <<>>]
  /\ UNCHANGED <<session, shellReq, command_logs, flushed, rx, cmdSeq>>
  /\ UNCHANGED <<connVars, tests, dbVars, uiVars, now>>

\* A close callback that only sends terminal:exit.
ChannelClose_ExitOnly(t) ==
  /\ ChannelLive(t)
  /\ channel' = [channel EXCEPT ![t].state = "closed"]
  /\ lastOp' = [op |-> "channel:close", terminalId |-> t, was |-> channel[t].state,
                events |-> <<broadcastExit(t)>>]
  /\ UNCHANGED <<terminals, session, shellReq, command_logs, flushed, rx, cmdSeq>>
  /\ UNCHANGED <<connVars, tests, dbVars, uiVars, now>>

\* channel.on('close') of terminal t
ChannelClose(t) ==
  /\ ChannelLive(t)
  /\ LET s == session[t]
         pending == HasPending(s)
     IN
     /\ session' = [session EXCEPT ![t] = IF pending THEN logCommandComplete(s) ELSE s]
     /\ command_logs' = IF pending THEN command_logs \o CompletedRows(s, now) ELSE command_logs
     /\ flushed' = IF pending
                   THEN flushed \o CompletedCalls(t, s, now, rx[t], "close")
                   ELSE flushed
  /\ channel' = [channel EXCEPT ![t].state = "closed"]
  /\ terminals' = terminals \ {t}
  /\ lastOp' = [op |-> "channel:close", terminalId |-> t, was |-> channel[t].state,
                events |-> <<broadcastExit(t)>>]
  /\ rx' = [rx EXCEPT ![t] = NoChunks]
  /\ UNCHANGED <<shellReq, cmdSeq>>
  /\ UNCHANGED <<connVars, tests, dbVars, uiVars, now>>

(***************************************************************************)
(* OutputAnalyzer.ts: regular expressions.  A pattern is a syntax tree; a  *)
(* match is computed as a backtracking engine computes it, the outcomes at *)
(* one start position listed in the engine's order of preference (the      *)
(* alternatives left to right, a quantifier taking as much as it can       *)
(* first).  All the patterns of the analyzer carry the flag i: a character *)
(* of the subject is compared in lower case.                               *)
(***************************************************************************)
Lit(cs) == [t |-> "lit", cs |-> cs]
Cls(set) == [t |-> "cls", set |-> set]
Dot == [t |-> "dot"]
Cat(xs) == [t |-> "cat", xs |-> xs]
Alt(xs) == [t |-> "alt", xs |-> xs]
Star(x) == [t |-> "star", x |-> x]
Plus(x) == Cat(<<x, Star(x)>>)
Opt(x) == Alt(<<x, Cat(<<>>)>>)
Grp(k, x) == [t |-> "grp", k |-> k, x |-> x]

\* \d
Digit == {"0", "1", "2", "3", "4", "5", "6", "7", "8", "9"}

\* \s, among the characters of the model's texts
Space == Whitespace \cup LineTerminators

\* The capture groups before a match: none has taken part (the patterns have at most
\* two groups; a group that has not taken part and one that matched the empty string
\* are both falsy where analyzeOutput reads them).
NoCaps == <<<<>>, <<>>>>

\* The ways pattern n matches s from position i on, in the engine's order; each is
\* the position after the match and the capture groups.
RECURSIVE Match(_, _, _, _), MatchAll(_, _, _)
Match(n, s, i, caps) ==
  CASE n.t = "lit" ->
         IF /\ i + Len(n.cs) - 1 <= Len(s)
            /\ \A j \in 1..Len(n.cs) : LowerChar(s[i + j - 1]) = n.cs[j]
         THEN <<[i |-> i + Len(n.cs), caps |-> caps]>>
         ELSE <<>>
    [] n.t = "cls" ->
         IF i <= Len(s) /\ LowerChar(s[i]) \in n.set
         THEN <<[i |-> i + 1, caps |-> caps]>>
         ELSE <<>>
    [] n.t = "dot" ->
         IF i <= Len(s) /\ s[i] \notin LineTerminators
         THEN <<[i |-> i + 1, caps |-> caps]>>
         ELSE <<>>
    [] n.t = "cat" ->
         IF n.xs = <<>> THEN <<[i |-> i, caps |-> caps]>>
         ELSE MatchAll(Cat(Tail(n.xs)), s, Match(Head(n.xs), s, i, caps))
    [] n.t = "alt" ->
         IF n.xs = <<>> THEN <<>>
         ELSE Match(Head(n.xs), s, i, caps) \o Match(Alt(Tail(n.xs)), s, i, caps)
    [] n.t = "star" ->
         MatchAll(n, s, SelectSeq(Match(n.x, s, i, caps), LAMBDA r : r.i > i))
           \o <<[i |-> i, caps |-> caps]>>
    [] n.t = "grp" ->
         LET rs == Match(n.x, s, i, caps) IN
         [k \in 1..Len(rs) |->
            [i |-> rs[k].i, caps |-> [rs[k].caps EXCEPT ![n.k] = SubSeq(s, i, rs[k].i - 1)]]]
MatchAll(n, s, rs) ==
  IF rs = <<>> THEN <<>>
  ELSE Match(n, s, rs[1].i, rs[1].caps) \o MatchAll(n, s, Tail(rs))

\* The first match of the pattern in s at or after position i, as exec finds it: the
\* leftmost start, and there the engine's first outcome; <<>> when there is none.
RECURSIVE Exec(_, _, _)
Exec(re, s, i) ==
  IF i > Len(s) + 1 THEN <<>>
  ELSE LET rs == Match(re, s, i, NoCaps) IN
       IF rs # <<>> THEN <<rs[1].caps>> ELSE Exec(re, s, i + 1)

\* pattern.test(output), for a pattern without the flag g
Test(re, s) == Exec(re, s, 1) # <<>>

\* The value of a decimal digit.
DigitValue(c) ==
  CASE c = "0" -> 0 [] c = "1" -> 1 [] c = "2" -> 2 [] c = "3" -> 3 [] c = "4" -> 4
    [] c = "5" -> 5 [] c = "6" -> 6 [] c = "7" -> 7 [] c = "8" -> 8 [] c = "9" -> 9

\* The longest prefix of s made of digits.
RECURSIVE DigitPrefix(_)
DigitPrefix(s) ==
  IF s # <<>> /\ Head(s) \in Digit THEN <<Head(s)>> \o DigitPrefix(Tail(s)) ELSE <<>>

\* The number a sequence of digits denotes.
RECURSIVE DigitsValue(_)
DigitsValue(ds) ==
  IF ds = <<>> THEN 0 ELSE 10 * DigitsValue(SubSeq(ds, 1, Len(ds) - 1)) + DigitValue(ds[Len(ds)])

\* parseInt(s) of a string that starts with a digit, as every first group of
\* SERVICE_PATTERNS does: the number of its leading digits ("1.18" gives 1).
parseInt(s) == DigitsValue(DigitPrefix(s))

\* The output texts handed to analysis:analyze.
OutputTexts ==
  {"22/tcp open ssh OpenSSH 8.2",
   "2222/tcp open ssh",
   "Host is up. 80/tcp open http",
   "ls: no such file"}

\* The characters of an output text.
OutputChars(text) ==
  CASE text = "22/tcp open ssh OpenSSH 8.2" ->
         <<"2", "2", "/", "t", "c", "p", " ", "o", "p", "e", "n", " ", "s", "s", "h", " ", "O",
         "p", "e", "n", "S", "S", "H", " ", "8", ".", "2">>
    [] text = "2222/tcp open ssh" ->
         <<"2", "2", "2", "2", "/", "t", "c", "p", " ", "o", "p", "e", "n", " ", "s", "s", "h">>
    [] text = "Host is up. 80/tcp open http" ->
         <<"H", "o", "s", "t", " ", "i", "s", " ", "u", "p", ".", " ", "8", "0", "/", "t", "c",
         "p", " ", "o", "p", "e", "n", " ", "h", "t", "t", "p">>
    [] text = "ls: no such file" ->
         <<"l", "s", ":", " ", "n", "o", " ", "s", "u", "c", "h", " ", "f", "i", "l", "e">>

\* SERVICE_PATTERNS, in the order of the object's keys; the letters of a pattern are
\* written in lower case, as the patterns carry the flag i.
SERVICE_PATTERNS ==
  <<
   \* http: /(\d+)\/tcp\s+open\s+(http|https)/gi
   [name |-> "http",
    re |-> Cat(<<Grp(1, Plus(Cls(Digit))), Lit(<<"/", "t", "c", "p">>), Plus(Cls(Space)),
          Lit(<<"o", "p", "e", "n">>), Plus(Cls(Space)), Grp(2, Alt(<<Lit(<<"h", "t", "t",
          "p">>), Lit(<<"h", "t", "t", "p", "s">>)>>))>>)],
   \* nginx: /nginx\/?(\d+\.\d+)?/gi
   [name |-> "nginx",
    re |-> Cat(<<Lit(<<"n", "g", "i", "n", "x">>), Opt(Lit(<<"/">>)), Opt(Grp(1,
          Cat(<<Plus(Cls(Digit)), Lit(<<".">>), Plus(Cls(Digit))>>)))>>)],
   \* apache: /apache\/?(\d+\.\d+)?/gi
   [name |-> "apache",
    re |-> Cat(<<Lit(<<"a", "p", "a", "c", "h", "e">>), Opt(Lit(<<"/">>)), Opt(Grp(1,
          Cat(<<Plus(Cls(Digit)), Lit(<<".">>), Plus(Cls(Digit))>>)))>>)],
   \* iis: /microsoft[\s-]iis\/?(\d+\.\d+)?/gi
   [name |-> "iis",
    re |-> Cat(<<Lit(<<"m", "i", "c", "r", "o", "s", "o", "f", "t">>), Cls(Space \cup {"-"}),
          Lit(<<"i", "i", "s">>), Opt(Lit(<<"/">>)), Opt(Grp(1, Cat(<<Plus(Cls(Digit)),
          Lit(<<".">>), Plus(Cls(Digit))>>)))>>)],
   \* tomcat: /tomcat\/?(\d+\.\d+)?/gi
   [name |-> "tomcat",
    re |-> Cat(<<Lit(<<"t", "o", "m", "c", "a", "t">>), Opt(Lit(<<"/">>)), Opt(Grp(1,
          Cat(<<Plus(Cls(Digit)), Lit(<<".">>), Plus(Cls(Digit))>>)))>>)],
   \* mysql: /(\d+)\/tcp\s+open\s+mysql|mysql\/?(\d+\.\d+)?/gi
   [name |-> "mysql",
    re |-> Alt(<<Cat(<<Grp(1, Plus(Cls(Digit))), Lit(<<"/", "t", "c", "p">>), Plus(Cls(Space)),
          Lit(<<"o", "p", "e", "n">>), Plus(Cls(Space)), Lit(<<"m", "y", "s", "q", "l">>)>>),
          Cat(<<Lit(<<"m", "y", "s", "q", "l">>), Opt(Lit(<<"/">>)), Opt(Grp(2,
          Cat(<<Plus(Cls(Digit)), Lit(<<".">>), Plus(Cls(Digit))>>)))>>)>>)],
   \* postgres: /(\d+)\/tcp\s+open\s+postgresql|postgres/gi
   [name |-> "postgres",
    re |-> Alt(<<Cat(<<Grp(1, Plus(Cls(Digit))), Lit(<<"/", "t", "c", "p">>), Plus(Cls(Space)),
          Lit(<<"o", "p", "e", "n">>), Plus(Cls(Space)), Lit(<<"p", "o", "s", "t", "g", "r",
          "e", "s", "q", "l">>)>>), Lit(<<"p", "o", "s", "t", "g", "r", "e", "s">>)>>)],
   \* mssql: /(\d+)\/tcp\s+open\s+ms-sql|microsoft[\s-]sql/gi
   [name |-> "mssql",
    re |-> Alt(<<Cat(<<Grp(1, Plus(Cls(Digit))), Lit(<<"/", "t", "c", "p">>), Plus(Cls(Space)),
          Lit(<<"o", "p", "e", "n">>), Plus(Cls(Space)), Lit(<<"m", "s", "-", "s", "q",
          "l">>)>>), Cat(<<Lit(<<"m", "i", "c", "r", "o", "s", "o", "f", "t">>),
          Cls(Space \cup {"-"}), Lit(<<"s", "q", "l">>)>>)>>)],
   \* mongodb: /mongodb\/?(\d+\.\d+)?/gi
   [name |-> "mongodb",
    re |-> Cat(<<Lit(<<"m", "o", "n", "g", "o", "d", "b">>), Opt(Lit(<<"/">>)), Opt(Grp(1,
          Cat(<<Plus(Cls(Digit)), Lit(<<".">>), Plus(Cls(Digit))>>)))>>)],
   \* redis: /redis\/?(\d+\.\d+)?/gi
   [name |-> "redis",
    re |-> Cat(<<Lit(<<"r", "e", "d", "i", "s">>), Opt(Lit(<<"/">>)), Opt(Grp(1,
          Cat(<<Plus(Cls(Digit)), Lit(<<".">>), Plus(Cls(Digit))>>)))>>)],
   \* ssh: /(\d+)\/tcp\s+open\s+ssh|openssh[\s-]?(\d+\.\d+)?/gi
   [name |-> "ssh",
    re |-> Alt(<<Cat(<<Grp(1, Plus(Cls(Digit))), Lit(<<"/", "t", "c", "p">>), Plus(Cls(Space)),
          Lit(<<"o", "p", "e", "n">>), Plus(Cls(Space)), Lit(<<"s", "s", "h">>)>>),
          Cat(<<Lit(<<"o", "p", "e", "n", "s", "s", "h">>), Opt(Cls(Space \cup {"-"})),
          Opt(Grp(2, Cat(<<Plus(Cls(Digit)), Lit(<<".">>), Plus(Cls(Digit))>>)))>>)>>)],
   \* ldap: /(\d+)\/tcp\s+open\s+ldap/gi
   [name |-> "ldap",
    re |-> Cat(<<Grp(1, Plus(Cls(Digit))), Lit(<<"/", "t", "c", "p">>), Plus(Cls(Space)),
          Lit(<<"o", "p", "e", "n">>), Plus(Cls(Space)), Lit(<<"l", "d", "a", "p">>)>>)],
   \* kerberos: /(\d+)\/tcp\s+open\s+kerberos|88\/tcp/gi
   [name |-> "kerberos",
    re |-> Alt(<<Cat(<<Grp(1, Plus(Cls(Digit))), Lit(<<"/", "t", "c", "p">>), Plus(Cls(Space)),
          Lit(<<"o", "p", "e", "n">>), Plus(Cls(Space)), Lit(<<"k", "e", "r", "b", "e", "r",
          "o", "s">>)>>), Lit(<<"8", "8", "/", "t", "c", "p">>)>>)],
   \* smb: /(\d+)\/tcp\s+open\s+microsoft-ds|445\/tcp|139\/tcp/gi
   [name |-> "smb",
    re |-> Alt(<<Cat(<<Grp(1, Plus(Cls(Digit))), Lit(<<"/", "t", "c", "p">>), Plus(Cls(Space)),
          Lit(<<"o", "p", "e", "n">>), Plus(Cls(Space)), Lit(<<"m", "i", "c", "r", "o", "s",
          "o", "f", "t", "-", "d", "s">>)>>), Lit(<<"4", "4", "5", "/", "t", "c", "p">>),
          Lit(<<"1", "3", "9", "/", "t", "c", "p">>)>>)],
   \* rdp: /(\d+)\/tcp\s+open\s+ms-wbt-server|3389\/tcp/gi
   [name |-> "rdp",
    re |-> Alt(<<Cat(<<Grp(1, Plus(Cls(Digit))), Lit(<<"/", "t", "c", "p">>), Plus(Cls(Space)),
          Lit(<<"o", "p", "e", "n">>), Plus(Cls(Space)), Lit(<<"m", "s", "-", "w", "b", "t",
          "-", "s", "e", "r", "v", "e", "r">>)>>), Lit(<<"3", "3", "8", "9", "/", "t", "c",
          "p">>)>>)],
   \* winrm: /5985\/tcp|5986\/tcp/gi
   [name |-> "winrm",
    re |-> Alt(<<Lit(<<"5", "9", "8", "5", "/", "t", "c", "p">>), Lit(<<"5", "9", "8", "6", "/",
          "t", "c", "p">>)>>)],
   \* smtp: /(\d+)\/tcp\s+open\s+smtp/gi
   [name |-> "smtp",
    re |-> Cat(<<Grp(1, Plus(Cls(Digit))), Lit(<<"/", "t", "c", "p">>), Plus(Cls(Space)),
          Lit(<<"o", "p", "e", "n">>), Plus(Cls(Space)), Lit(<<"s", "m", "t", "p">>)>>)],
   \* pop3: /(\d+)\/tcp\s+open\s+pop3/gi
   [name |-> "pop3",
    re |-> Cat(<<Grp(1, Plus(Cls(Digit))), Lit(<<"/", "t", "c", "p">>), Plus(Cls(Space)),
          Lit(<<"o", "p", "e", "n">>), Plus(Cls(Space)), Lit(<<"p", "o", "p", "3">>)>>)],
   \* imap: /(\d+)\/tcp\s+open\s+imap/gi
   [name |-> "imap",
    re |-> Cat(<<Grp(1, Plus(Cls(Digit))), Lit(<<"/", "t", "c", "p">>), Plus(Cls(Space)),
          Lit(<<"o", "p", "e", "n">>), Plus(Cls(Space)), Lit(<<"i", "m", "a", "p">>)>>)],
   \* ftp: /(\d+)\/tcp\s+open\s+ftp/gi
   [name |-> "ftp",
    re |-> Cat(<<Grp(1, Plus(Cls(Digit))), Lit(<<"/", "t", "c", "p">>), Plus(Cls(Space)),
          Lit(<<"o", "p", "e", "n">>), Plus(Cls(Space)), Lit(<<"f", "t", "p">>)>>)],
   \* dns: /(\d+)\/tcp\s+open\s+domain|53\/tcp/gi
   [name |-> "dns",
    re |-> Alt(<<Cat(<<Grp(1, Plus(Cls(Digit))), Lit(<<"/", "t", "c", "p">>), Plus(Cls(Space)),
          Lit(<<"o", "p", "e", "n">>), Plus(Cls(Space)), Lit(<<"d", "o", "m", "a", "i",
          "n">>)>>), Lit(<<"5", "3", "/", "t", "c", "p">>)>>)],
   \* snmp: /(\d+)\/udp\s+open\s+snmp|161\/udp/gi
   [name |-> "snmp",
    re |-> Alt(<<Cat(<<Grp(1, Plus(Cls(Digit))), Lit(<<"/", "u", "d", "p">>), Plus(Cls(Space)),
          Lit(<<"o", "p", "e", "n">>), Plus(Cls(Space)), Lit(<<"s", "n", "m", "p">>)>>),
          Lit(<<"1", "6", "1", "/", "u", "d", "p">>)>>)]
  >>

\* PATH_PATTERNS, in the order of the object's keys.
PATH_PATTERNS ==
  <<
   [name |-> "recon",
    patterns |-> <<
        \* /nmap.*-s[STUA]/i
        Cat(<<Lit(<<"n", "m", "a", "p">>), Star(Dot), Lit(<<"-", "s">>), Cls({"s", "t", "u",
        "a"})>>),
        \* /masscan/i
        Lit(<<"m", "a", "s", "s", "c", "a", "n">>),
        \* /rustscan/i
        Lit(<<"r", "u", "s", "t", "s", "c", "a", "n">>),
        \* /discovered open port/i
        Lit(<<"d", "i", "s", "c", "o", "v", "e", "r", "e", "d", " ", "o", "p", "e", "n", " ",
        "p", "o", "r", "t">>),
        \* /host is up/i
        Lit(<<"h", "o", "s", "t", " ", "i", "s", " ", "u", "p">>)
      >>,
    description |-> "Network reconnaissance detected"],
   [name |-> "web_enum",
    patterns |-> <<
        \* /gobuster/i
        Lit(<<"g", "o", "b", "u", "s", "t", "e", "r">>),
        \* /ffuf/i
        Lit(<<"f", "f", "u", "f">>),
        \* /dirb/i
        Lit(<<"d", "i", "r", "b">>),
        \* /dirsearch/i
        Lit(<<"d", "i", "r", "s", "e", "a", "r", "c", "h">>),
        \* /nikto/i
        Lit(<<"n", "i", "k", "t", "o">>),
        \* /wfuzz/i
        Lit(<<"w", "f", "u", "z", "z">>),
        \* /Status:\s*200/i
        Cat(<<Lit(<<"s", "t", "a", "t", "u", "s", ":">>), Star(Cls(Space)), Lit(<<"2", "0",
        "0">>)>>),
        \* /Found:/i
        Lit(<<"f", "o", "u", "n", "d", ":">>)
      >>,
    description |-> "Web enumeration detected"],
   [name |-> "vuln_scan",
    patterns |-> <<
        \* /nmap.*--script.*vuln/i
        Cat(<<Lit(<<"n", "m", "a", "p">>), Star(Dot), Lit(<<"-", "-", "s", "c", "r", "i", "p",
        "t">>), Star(Dot), Lit(<<"v", "u", "l", "n">>)>>),
        \* /nikto/i
        Lit(<<"n", "i", "k", "t", "o">>),
        \* /nuclei/i
        Lit(<<"n", "u", "c", "l", "e", "i">>),
        \* /CVE-\d{4}-\d+/i
        Cat(<<Lit(<<"c", "v", "e", "-">>), Cls(Digit), Cls(Digit), Cls(Digit), Cls(Digit),
        Lit(<<"-">>), Plus(Cls(Digit))>>),
        \* /VULNERABLE/i
        Lit(<<"v", "u", "l", "n", "e", "r", "a", "b", "l", "e">>)
      >>,
    description |-> "Vulnerability scanning detected"],
   [name |-> "sqli",
    patterns |-> <<
        \* /sqlmap/i
        Lit(<<"s", "q", "l", "m", "a", "p">>),
        \* /sql injection/i
        Lit(<<"s", "q", "l", " ", "i", "n", "j", "e", "c", "t", "i", "o", "n">>),
        \* /\[INFO\].*injectable/i
        Cat(<<Lit(<<"[", "i", "n", "f", "o", "]">>), Star(Dot), Lit(<<"i", "n", "j", "e", "c",
        "t", "a", "b", "l", "e">>)>>),
        \* /database.*extracted/i
        Cat(<<Lit(<<"d", "a", "t", "a", "b", "a", "s", "e">>), Star(Dot), Lit(<<"e", "x", "t",
        "r", "a", "c", "t", "e", "d">>)>>)
      >>,
    description |-> "SQL injection testing detected"],
   [name |-> "auth_bypass",
    patterns |-> <<
        \* /hydra/i
        Lit(<<"h", "y", "d", "r", "a">>),
        \* /medusa/i
        Lit(<<"m", "e", "d", "u", "s", "a">>),
        \* /login.*success/i
        Cat(<<Lit(<<"l", "o", "g", "i", "n">>), Star(Dot), Lit(<<"s", "u", "c", "c", "e", "s",
        "s">>)>>),
        \* /password.*found/i
        Cat(<<Lit(<<"p", "a", "s", "s", "w", "o", "r", "d">>), Star(Dot), Lit(<<"f", "o", "u",
        "n", "d">>)>>),
        \* /\[.*\].*:.*:.*password/i
        Cat(<<Lit(<<"[">>), Star(Dot), Lit(<<"]">>), Star(Dot), Lit(<<":">>), Star(Dot),
        Lit(<<":">>), Star(Dot), Lit(<<"p", "a", "s", "s", "w", "o", "r", "d">>)>>)
      >>,
    description |-> "Authentication bypass/brute force detected"],
   [name |-> "ad_enum",
    patterns |-> <<
        \* /bloodhound/i
        Lit(<<"b", "l", "o", "o", "d", "h", "o", "u", "n", "d">>),
        \* /ldapsearch/i
        Lit(<<"l", "d", "a", "p", "s", "e", "a", "r", "c", "h">>),
        \* /enum4linux/i
        Lit(<<"e", "n", "u", "m", "4", "l", "i", "n", "u", "x">>),
        \* /crackmapexec/i
        Lit(<<"c", "r", "a", "c", "k", "m", "a", "p", "e", "x", "e", "c">>),
        \* /impacket/i
        Lit(<<"i", "m", "p", "a", "c", "k", "e", "t">>),
        \* /GetUserSPNs/i
        Lit(<<"g", "e", "t", "u", "s", "e", "r", "s", "p", "n", "s">>)
      >>,
    description |-> "Active Directory enumeration detected"],
   [name |-> "kerberos",
    patterns |-> <<
        \* /GetUserSPNs/i
        Lit(<<"g", "e", "t", "u", "s", "e", "r", "s", "p", "n", "s">>),
        \* /kerberoast/i
        Lit(<<"k", "e", "r", "b", "e", "r", "o", "a", "s", "t">>),
        \* /asrep/i
        Lit(<<"a", "s", "r", "e", "p">>),
        \* /\$krb5tgs\$/i
        Lit(<<"$", "k", "r", "b", "5", "t", "g", "s", "$">>),
        \* /\$krb5asrep\$/i
        Lit(<<"$", "k", "r", "b", "5", "a", "s", "r", "e", "p", "$">>)
      >>,
    description |-> "Kerberos attack detected"],
   [name |-> "privesc",
    patterns |-> <<
        \* /linpeas/i
        Lit(<<"l", "i", "n", "p", "e", "a", "s">>),
        \* /winpeas/i
        Lit(<<"w", "i", "n", "p", "e", "a", "s">>),
        \* /linenum/i
        Lit(<<"l", "i", "n", "e", "n", "u", "m">>),
        \* /sudo.*-l/i
        Cat(<<Lit(<<"s", "u", "d", "o">>), Star(Dot), Lit(<<"-", "l">>)>>),
        \* /SUID/i
        Lit(<<"s", "u", "i", "d">>),
        \* /privilege/i
        Lit(<<"p", "r", "i", "v", "i", "l", "e", "g", "e">>)
      >>,
    description |-> "Privilege escalation enumeration detected"],
   [name |-> "lateral",
    patterns |-> <<
        \* /psexec/i
        Lit(<<"p", "s", "e", "x", "e", "c">>),
        \* /wmiexec/i
        Lit(<<"w", "m", "i", "e", "x", "e", "c">>),
        \* /smbexec/i
        Lit(<<"s", "m", "b", "e", "x", "e", "c">>),
        \* /evil-winrm/i
        Lit(<<"e", "v", "i", "l", "-", "w", "i", "n", "r", "m">>),
        \* /pass.the.hash/i
        Cat(<<Lit(<<"p", "a", "s", "s">>), Dot, Lit(<<"t", "h", "e">>), Dot, Lit(<<"h", "a",
        "s", "h">>)>>)
      >>,
    description |-> "Lateral movement detected"]
  >>

(***************************************************************************)
(* OutputAnalyzer.ts: the analysis pipeline.                               *)
(***************************************************************************)

\* The DetectedService pushed for a match with groups g1 and g2.  A field that is
\* undefined is absent, as it is from the JSON text stored in the metadata column.
\* An entry that leaves out what the capture groups gave.
DetectedService_NameOnly(name, g1, g2) == [name |-> name, confidence |-> "0.9"]

DetectedService(name, g1, g2) ==
  IF g1 # <<>> /\ g2 # <<>>
    THEN [name |-> name, port |-> parseInt(g1), version |-> g2, confidence |-> "0.9"]
  ELSE IF g1 # <<>>
    THEN [name |-> name, port |-> parseInt(g1), confidence |-> "0.9"]
  ELSE IF g2 # <<>>
    THEN [name |-> name, version |-> g2, confidence |-> "0.9"]
  ELSE [name |-> name, confidence |-> "0.9"]

\* The loop of analyzeOutput from entry k of SERVICE_PATTERNS on: of the matches of a
\* pattern the first one is pushed, as the name is in seen for the later ones.
RECURSIVE analyzeFrom(_, _, _)
analyzeFrom(k, output, seen) ==
  IF k > Len(SERVICE_PATTERNS) THEN <<>>
  ELSE LET entry == SERVICE_PATTERNS[k]
           matches == Exec(entry.re, output, 1)
       IN IF matches # <<>> /\ entry.name \notin seen
          THEN <<DetectedService(entry.name, matches[1][1], matches[1][2])>>
                 \o analyzeFrom(k + 1, output, seen \cup {entry.name})
          ELSE analyzeFrom(k + 1, output, seen)

\* analyzeOutput(output)
analyzeOutput(output) == analyzeFrom(1, output, {})

\* The entries of PATH_PATTERNS one of whose patterns matches the output, in order.
DetectedPaths(output) ==
  SelectSeq(PATH_PATTERNS,
            LAMBDA config : \E k \in 1..Len(config.patterns) : Test(config.patterns[k], output))

\* RECOMMENDATIONS: the recommendations of each service that has some, in order.
RecommendedServices == {"http", "mysql", "smb", "ssh", "ldap", "kerberos", "ftp", "rdp"}

RECOMMENDATIONS ==
  [name \in RecommendedServices |->
     CASE name = "http" ->
         <<
            [category |-> "Enumeration",
             commands |-> <<"gobuster dir -u http://TARGET -w /usr/share/wordlists/dirb/common.txt",
                            "nikto -h http://TARGET">>,
             description |-> "Enumerate web directories and scan for common vulnerabilities"],
            [category |-> "Vulnerability",
             commands |-> <<"nuclei -u http://TARGET",
                            "whatweb http://TARGET">>,
             description |-> "Scan for known vulnerabilities and identify technologies"] >>
       [] name = "mysql" ->
         <<
            [category |-> "Enumeration",
             commands |-> <<"mysql -h TARGET -u root -p",
                            "nmap -sV -p 3306 --script mysql-enum TARGET">>,
             description |-> "Enumerate MySQL database"],
            [category |-> "Brute Force",
             commands |-> <<"hydra -l root -P /usr/share/wordlists/rockyou.txt TARGET mysql">>,
             description |-> "Brute force MySQL credentials"] >>
       [] name = "smb" ->
         <<
            [category |-> "Enumeration",
             commands |-> <<"smbclient -L //TARGET -N",
                            "enum4linux -a TARGET",
                            "crackmapexec smb TARGET">>,
             description |-> "Enumerate SMB shares and users"],
            [category |-> "Vulnerability",
             commands |-> <<"nmap -p 445 --script smb-vuln* TARGET">>,
             description |-> "Check for SMB vulnerabilities (EternalBlue, etc.)"] >>
       [] name = "ssh" ->
         <<
            [category |-> "Brute Force",
             commands |-> <<"hydra -l root -P /usr/share/wordlists/rockyou.txt TARGET ssh">>,
             description |-> "Brute force SSH credentials"],
            [category |-> "Enumeration",
             commands |-> <<"ssh-audit TARGET">>,
             description |-> "Audit SSH configuration"] >>
       [] name = "ldap" ->
         <<
            [category |-> "Enumeration",
             commands |-> <<"ldapsearch -x -H ldap://TARGET -b \"dc=domain,dc=local\"",
                            "nmap -p 389 --script ldap-search TARGET">>,
             description |-> "Enumerate LDAP directory"] >>
       [] name = "kerberos" ->
         <<
            [category |-> "Enumeration",
             commands |-> <<"GetUserSPNs.py DOMAIN/user:password -dc-ip TARGET",
                            "GetNPUsers.py DOMAIN/ -usersfile users.txt -no-pass -dc-ip TARGET">>,
             description |-> "Enumerate Kerberos SPNs and AS-REP roastable users"] >>
       [] name = "ftp" ->
         <<
            [category |-> "Enumeration",
             commands |-> <<"ftp TARGET",
                            "nmap -sV -p 21 --script ftp-anon,ftp-bounce TARGET">>,
             description |-> "Check for anonymous FTP access"] >>
       [] name = "rdp" ->
         <<
            [category |-> "Vulnerability",
             commands |-> <<"nmap -p 3389 --script rdp-vuln-ms12-020 TARGET">>,
             description |-> "Check for RDP vulnerabilities"],
            [category |-> "Brute Force",
             commands |-> <<"hydra -l Administrator -P /usr/share/wordlists/rockyou.txt TARGET rdp">>,
             description |-> "Brute force RDP credentials"] >>]

\* The characters of a command template of RECOMMENDATIONS.
TemplateChars(command) ==
  CASE command = "gobuster dir -u http://TARGET -w /usr/share/wordlists/dirb/common.txt" ->
         <<"g", "o", "b", "u", "s", "t", "e", "r", " ", "d", "i", "r", " ", "-", "u", " ",
           "h", "t", "t", "p", ":", "/", "/", "T", "A", "R", "G", "E", "T", " ", "-", "w",
           " ", "/", "u", "s", "r", "/", "s", "h", "a", "r", "e", "/", "w", "o", "r", "d",
           "l", "i", "s", "t", "s", "/", "d", "i", "r", "b", "/", "c", "o", "m", "m", "o",
           "n", ".", "t", "x", "t">>
    [] command = "nikto -h http://TARGET" ->
         <<"n", "i", "k", "t", "o", " ", "-", "h", " ", "h", "t", "t", "p", ":", "/", "/",
           "T", "A", "R", "G", "E", "T">>
    [] command = "nuclei -u http://TARGET" ->
         <<"n", "u", "c", "l", "e", "i", " ", "-", "u", " ", "h", "t", "t", "p", ":", "/",
           "/", "T", "A", "R", "G", "E", "T">>
    [] command = "whatweb http://TARGET" ->
         <<"w", "h", "a", "t", "w", "e", "b", " ", "h", "t", "t", "p", ":", "/", "/", "T",
           "A", "R", "G", "E", "T">>
    [] command = "mysql -h TARGET -u root -p" ->
         <<"m", "y", "s", "q", "l", " ", "-", "h", " ", "T", "A", "R", "G", "E", "T", " ",
           "-", "u", " ", "r", "o", "o", "t", " ", "-", "p">>
    [] command = "nmap -sV -p 3306 --script mysql-enum TARGET" ->
         <<"n", "m", "a", "p", " ", "-", "s", "V", " ", "-", "p", " ", "3", "3", "0", "6",
           " ", "-", "-", "s", "c", "r", "i", "p", "t", " ", "m", "y", "s", "q", "l", "-",
           "e", "n", "u", "m", " ", "T", "A", "R", "G", "E", "T">>
    [] command = "hydra -l root -P /usr/share/wordlists/rockyou.txt TARGET mysql" ->
         <<"h", "y", "d", "r", "a", " ", "-", "l", " ", "r", "o", "o", "t", " ", "-", "P",
           " ", "/", "u", "s", "r", "/", "s", "h", "a", "r", "e", "/", "w", "o", "r", "d",
           "l", "i", "s", "t", "s", "/", "r", "o", "c", "k", "y", "o", "u", ".", "t", "x",
           "t", " ", "T", "A", "R", "G", "E", "T", " ", "m", "y", "s", "q", "l">>
    [] command = "smbclient -L //TARGET -N" ->
         <<"s", "m", "b", "c", "l", "i", "e", "n", "t", " ", "-", "L", " ", "/", "/", "T",
           "A", "R", "G", "E", "T", " ", "-", "N">>
    [] command = "enum4linux -a TARGET" ->
         <<"e", "n", "u", "m", "4", "l", "i", "n", "u", "x", " ", "-", "a", " ", "T", "A",
           "R", "G", "E", "T">>
    [] command = "crackmapexec smb TARGET" ->
         <<"c", "r", "a", "c", "k", "m", "a", "p", "e", "x", "e", "c", " ", "s", "m", "b",
           " ", "T", "A", "R", "G", "E", "T">>
    [] command = "nmap -p 445 --script smb-vuln* TARGET" ->
         <<"n", "m", "a", "p", " ", "-", "p", " ", "4", "4", "5", " ", "-", "-", "s", "c",
           "r", "i", "p", "t", " ", "s", "m", "b", "-", "v", "u", "l", "n", "*", " ", "T",
           "A", "R", "G", "E", "T">>
    [] command = "hydra -l root -P /usr/share/wordlists/rockyou.txt TARGET ssh" ->
         <<"h", "y", "d", "r", "a", " ", "-", "l", " ", "r", "o", "o", "t", " ", "-", "P",
           " ", "/", "u", "s", "r", "/", "s", "h", "a", "r", "e", "/", "w", "o", "r", "d",
           "l", "i", "s", "t", "s", "/", "r", "o", "c", "k", "y", "o", "u", ".", "t", "x",
           "t", " ", "T", "A", "R", "G", "E", "T", " ", "s", "s", "h">>
    [] command = "ssh-audit TARGET" ->
         <<"s", "s", "h", "-", "a", "u", "d", "i", "t", " ", "T", "A", "R", "G", "E", "T">>
    [] command = "ldapsearch -x -H ldap://TARGET -b \"dc=domain,dc=local\"" ->
         <<"l", "d", "a", "p", "s", "e", "a", "r", "c", "h", " ", "-", "x", " ", "-", "H",
           " ", "l", "d", "a", "p", ":", "/", "/", "T", "A", "R", "G", "E", "T", " ", "-",
           "b", " ", "\"", "d", "c", "=", "d", "o", "m", "a", "i", "n", ",", "d", "c", "=",
           "l", "o", "c", "a", "l", "\"">>
    [] command = "nmap -p 389 --script ldap-search TARGET" ->
         <<"n", "m", "a", "p", " ", "-", "p", " ", "3", "8", "9", " ", "-", "-", "s", "c",
           "r", "i", "p", "t", " ", "l", "d", "a", "p", "-", "s", "e", "a", "r", "c", "h",
           " ", "T", "A", "R", "G", "E", "T">>
    [] command = "GetUserSPNs.py DOMAIN/user:password -dc-ip TARGET" ->
         <<"G", "e", "t", "U", "s", "e", "r", "S", "P", "N", "s", ".", "p", "y", " ", "D",
           "O", "M", "A", "I", "N", "/", "u", "s", "e", "r", ":", "p", "a", "s", "s", "w",
           "o", "r", "d", " ", "-", "d", "c", "-", "i", "p", " ", "T", "A", "R", "G", "E",
           "T">>
    [] command = "GetNPUsers.py DOMAIN/ -usersfile users.txt -no-pass -dc-ip TARGET" ->
         <<"G", "e", "t", "N", "P", "U", "s", "e", "r", "s", ".", "p", "y", " ", "D", "O",
           "M", "A", "I", "N", "/", " ", "-", "u", "s", "e", "r", "s", "f", "i", "l", "e",
           " ", "u", "s", "e", "r", "s", ".", "t", "x", "t", " ", "-", "n", "o", "-", "p",
           "a", "s", "s", " ", "-", "d", "c", "-", "i", "p", " ", "T", "A", "R", "G", "E",
           "T">>
    [] command = "ftp TARGET" ->
         <<"f", "t", "p", " ", "T", "A", "R", "G", "E", "T">>
    [] command = "nmap -sV -p 21 --script ftp-anon,ftp-bounce TARGET" ->
         <<"n", "m", "a", "p", " ", "-", "s", "V", " ", "-", "p", " ", "2", "1", " ", "-",
           "-", "s", "c", "r", "i", "p", "t", " ", "f", "t", "p", "-", "a", "n", "o", "n",
           ",", "f", "t", "p", "-", "b", "o", "u", "n", "c", "e", " ", "T", "A", "R", "G",
           "E", "T">>
    [] command = "nmap -p 3389 --script rdp-vuln-ms12-020 TARGET" ->
         <<"n", "m", "a", "p", " ", "-", "p", " ", "3", "3", "8", "9", " ", "-", "-", "s",
           "c", "r", "i", "p", "t", " ", "r", "d", "p", "-", "v", "u", "l", "n", "-", "m",
           "s", "1", "2", "-", "0", "2", "0", " ", "T", "A", "R", "G", "E", "T">>
    [] command = "hydra -l Administrator -P /usr/share/wordlists/rockyou.txt TARGET rdp" ->
         <<"h", "y", "d", "r", "a", " ", "-", "l", " ", "A", "d", "m", "i", "n", "i", "s",
           "t", "r", "a", "t", "o", "r", " ", "-", "P", " ", "/", "u", "s", "r", "/", "s",
           "h", "a", "r", "e", "/", "w", "o", "r", "d", "l", "i", "s", "t", "s", "/", "r",
           "o", "c", "k", "y", "o", "u", ".", "t", "x", "t", " ", "T", "A", "R", "G", "E",
           "T", " ", "r", "d", "p">>

\* getRecommendations(services)
RECURSIVE getRecommendations(_)
getRecommendations(services) ==
  IF services = <<>> THEN <<>>
  ELSE LET service == Head(services)
           serviceRecs == IF service.name \in RecommendedServices
                          THEN RECOMMENDATIONS[service.name] ELSE <<>>
       IN [k \in 1..Len(serviceRecs) |->
             [service |-> service.name, category |-> serviceRecs[k].category,
              commands |-> serviceRecs[k].commands,
              description |-> serviceRecs[k].description]]
          \o getRecommendations(Tail(services))

\* The analysis of each text of the model, computed once.
ServicesOf == [text \in OutputTexts |-> analyzeOutput(OutputChars(text))]
PathsOf == [text \in OutputTexts |-> DetectedPaths(OutputChars(text))]
RecommendationsOf == [text \in OutputTexts |-> getRecommendations(ServicesOf[text])]

\* A detectPathProgress whose signals say completed.
detectPathProgress_Completed(text, t) ==
  [k \in 1..Len(PathsOf[text]) |->
     [path |-> PathsOf[text][k].name, status |-> "completed",
      description |-> PathsOf[text][k].description, timestamp |-> t]]

\* detectPathProgress(output), at time t
detectPathProgress(text, t) ==
  [k \in 1..Len(PathsOf[text]) |->
     [path |-> PathsOf[text][k].name, status |-> "detected",
      description |-> PathsOf[text][k].description, timestamp |-> t]]

\* The row of targets with this id exists.
TargetExists(targetId) == \E t \in targets : t.id = targetId

\* uuidv4() for a new row of attack_path_progress: an id no row has.
NewRowId(rows) == Cardinality(rows) + 1

\* The rows of a target and path: what the SELECT of updatePathProgress ranges over.
RowsOfPath(rows, targetId, path) ==
  {r \in rows : r.target_id = targetId /\ r.path_id = path}

\* The row updatePathProgress inserts for signal p.  A row of the model has the
\* columns the handlers select by or assign a value of the request to; created_at
\* and updated_at, which take CURRENT_TIMESTAMP, are left out.
DetectedRow(rows, targetId, p) ==
  [id |-> NewRowId(rows), target_id |-> targetId, path_id |-> p.path,
   step_id |-> p.path \o "_detect", status |-> p.status, notes |-> p.description,
   findings_count |-> 0, completed_at |-> NoTime]

\* A variant of PathSignal that updates the row it found whatever its status.
PathSignal_AnyStatus(rows, targetId, p) ==
  IF RowsOfPath(rows, targetId, p.path) # {}
  THEN {(rows \ {existing}) \cup {[existing EXCEPT !.status = p.status]} :
          existing \in RowsOfPath(rows, targetId, p.path)}
  ELSE {rows \cup {DetectedRow(rows, targetId, p)}}

\* One turn of the loop of updatePathProgress, for signal p: the tables it can leave.
\* The SELECT names no order: when several rows of the target and path exist,
\* existing is any of them.
PathSignal(rows, targetId, p) ==
  IF RowsOfPath(rows, targetId, p.path) # {}
  THEN {IF existing.status # "completed"
        THEN (rows \ {existing}) \cup {[existing EXCEPT !.status = p.status]}
        ELSE rows : existing \in RowsOfPath(rows, targetId, p.path)}
  ELSE {rows \cup {DetectedRow(rows, targetId, p)}}

\* updatePathProgress(targetId, progress): the tables it can leave, starting from rows.
RECURSIVE updatePathProgress(_, _, _)
updatePathProgress(rows, targetId, progress) ==
  IF progress = <<>> THEN {rows}
  ELSE UNION {updatePathProgress(a, targetId, Tail(progress)) :
                a \in PathSignal(rows, targetId, Head(progress))}

\* A variant of storeDetectedServices that appends to the stored list.
storeDetectedServices_Append(meta, targetId, services, t) ==
  IF TargetExists(targetId)
  THEN [meta EXCEPT ![targetId] = [detectedServices |-> @.detectedServices \o services,
                                   lastScanTime |-> t]]
  ELSE meta

\* storeDetectedServices(targetId, services), at time t: the metadata of each target.
storeDetectedServices(meta, targetId, services, t) ==
  IF TargetExists(targetId)
  THEN [meta EXCEPT ![targetId] = [detectedServices |-> services, lastScanTime |-> t]]
  ELSE meta

\* The ids a request can name as its target: the target of the model and the id of
\* no target.
TargetIds == {"t1", "t9"}

\* An analyze that stores the detected services whether or not there are any.
Analyze_AlwaysStores(targetId, text) ==
  LET services == ServicesOf[text]
      recommendations == RecommendationsOf[text]
      pathProgress == detectPathProgress(text, now)
      throws == pathProgress # <<>> /\ ~TargetExists(targetId)
      again == /\ lastOp.op = "analysis:analyze"
               /\ lastOp.targetId = targetId
               /\ lastOp.text = text
  IN
  /\ targetMeta' = storeDetectedServices(targetMeta, targetId, services, now)
  /\ IF pathProgress # <<>> /\ ~throws
     THEN attack_path_progress' \in
            updatePathProgress(attack_path_progress, targetId, pathProgress)
     ELSE UNCHANGED attack_path_progress
  /\ lastOp' = IF throws
               THEN [op |-> "analysis:analyze", targetId |-> targetId, text |-> text,
                     again |-> again, result |-> "Failed", events |-> <<>>]
               ELSE [op |-> "analysis:analyze", targetId |-> targetId, text |-> text,
                     again |-> again, result |-> "Success", services |-> services,
                     recommendations |-> recommendations,
                     pathProgress |-> pathProgress, events |-> <<>>]
  /\ UNCHANGED <<targets, now>>
  /\ UNCHANGED <<connVars, tests, termVars, uiVars>>

\* analysis:analyze, with OutputAnalyzer.analyze.  An INSERT for the id of no target
\* breaks the foreign key of attack_path_progress and throws; the handler catches it
\* and answers with the error alone.
Analyze(targetId, text) ==
  LET services == ServicesOf[text]
      recommendations == RecommendationsOf[text]
      pathProgress == detectPathProgress(text, now)
      throws == pathProgress # <<>> /\ ~TargetExists(targetId)
      \* this request repeats the one before it
      again == /\ lastOp.op = "analysis:analyze"
               /\ lastOp.targetId = targetId
               /\ lastOp.text = text
  IN
  /\ targetMeta' = IF services # <<>>
                   THEN storeDetectedServices(targetMeta, targetId, services, now)
                   ELSE targetMeta
  /\ IF pathProgress # <<>> /\ ~throws
     THEN attack_path_progress' \in
            updatePathProgress(attack_path_progress, targetId, pathProgress)
     ELSE UNCHANGED attack_path_progress
  /\ lastOp' = IF throws
               THEN [op |-> "analysis:analyze", targetId |-> targetId, text |-> text,
                     again |-> again, result |-> "Failed", events |-> <<>>]
               ELSE [op |-> "analysis:analyze", targetId |-> targetId, text |-> text,
                     again |-> again, result |-> "Success", services |-> services,
                     recommendations |-> recommendations,
                     pathProgress |-> pathProgress, events |-> <<>>]
  /\ UNCHANGED <<targets, now>>
  /\ UNCHANGED <<connVars, tests, termVars, uiVars>>

(***************************************************************************)
(* database.handler.ts, analysis.handler.ts: the operator's updates.       *)
(***************************************************************************)

\* The values of status the renderer sends.
Statuses == {"pending", "in_progress", "completed", "skipped"}

\* The path and step ids of the operator's requests.
PathIds == {"recon"}
StepIds == {"recon_detect", "recon-1"}

\* The notes and findingsCount of the operator's requests: absent, as the attack
\* paths page sends them, or given.
Details == {[notes |-> Undef, findingsCount |-> 0], [notes |-> "checked", findingsCount |-> 2]}

\* data.notes || null
NotesOrNull(notes) == IF notes = Undef \/ notes = "" THEN Null ELSE notes

\* A variant of Upsert: ON CONFLICT DO NOTHING.
Upsert_DoNothing(rows, excluded) ==
  IF \E r \in rows : /\ r.target_id = excluded.target_id
                     /\ r.path_id = excluded.path_id
                     /\ r.step_id = excluded.step_id
  THEN rows
  ELSE rows \cup {excluded}

\* INSERT ... ON CONFLICT(target_id, path_id, step_id) DO UPDATE SET status, notes,
\* findings_count and completed_at to those of the row proposed (excluded).
Upsert(rows, excluded) ==
  IF \E r \in rows : /\ r.target_id = excluded.target_id
                     /\ r.path_id = excluded.path_id
                     /\ r.step_id = excluded.step_id
  THEN {IF /\ r.target_id = excluded.target_id
           /\ r.path_id = excluded.path_id
           /\ r.step_id = excluded.step_id
        THEN [r EXCEPT !.status = excluded.status, !.notes = excluded.notes,
                       !.findings_count = excluded.findings_count,
                       !.completed_at = excluded.completed_at]
        ELSE r : r \in rows}
  ELSE rows \cup {excluded}

\* db:attackPaths:updateProgress: INSERT ... ON CONFLICT(target_id, path_id, step_id)
\* DO UPDATE.  For the id of no target the INSERT breaks the foreign key and throws;
\* the handler does not catch it.
UpdateProgress(targetId, pathId, data) ==
  LET found == {r \in attack_path_progress :
                  r.target_id = targetId /\ r.path_id = pathId /\ r.step_id = data.stepId}
      \* the status of the entry before the request, Undef when there is none
      was == IF found = {} THEN Undef ELSE (CHOOSE r \in found : TRUE).status
      completed_at == IF data.status = "completed" THEN now ELSE NoTime
      excluded == [id |-> NewRowId(attack_path_progress), target_id |-> targetId,
                   path_id |-> pathId, step_id |-> data.stepId, status |-> data.status,
                   notes |-> NotesOrNull(data.notes), findings_count |-> data.findingsCount,
                   completed_at |-> completed_at]
  IN
  /\ IF ~TargetExists(targetId)
     THEN /\ UNCHANGED attack_path_progress
          /\ lastOp' = [op |-> "db:attackPaths:updateProgress", targetId |-> targetId,
                        pathId |-> pathId, data |-> data, was |-> was,
                        result |-> "Throws", events |-> <<>>]
     ELSE /\ attack_path_progress' = Upsert(attack_path_progress, excluded)
          /\ lastOp' = [op |-> "db:attackPaths:updateProgress", targetId |-> targetId,
                        pathId |-> pathId, data |-> data, was |-> was,
                        result |-> "Success", events |-> <<>>]
  /\ UNCHANGED <<targets, targetMeta, now>>
  /\ UNCHANGED <<connVars, tests, termVars, uiVars>>

\* analysis:updatePath: UPDATE ... WHERE target_id = ? AND path_id = ?
UpdatePath(targetId, pathId, status) ==
  /\ attack_path_progress' =
       {IF r.target_id = targetId /\ r.path_id = pathId
        THEN [r EXCEPT !.status = status] ELSE r : r \in attack_path_progress}
  /\ lastOp' = [op |-> "analysis:updatePath", targetId |-> targetId, pathId |-> pathId,
                status |-> status, result |-> "Success", events |-> <<>>]
  /\ UNCHANGED <<targets, targetMeta, now>>
  /\ UNCHANGED <<connVars, tests, termVars, uiVars>>

(***************************************************************************)
(* TerminalManager (renderer): the input of a managed terminal.  Input     *)
(* data and the inputBuffer are sequences of characters; the characters    *)
(* below 0x20 and DEL are written by their names.                          *)
(***************************************************************************)

\* [\x00-\x1f]
ControlChars == {"CR", "LF", "BS", "ETX", "ESC", "TAB"}

\* What String.prototype.trim removes at both ends.
WhiteSpace == {" ", "TAB", "CR", "LF"}

\* s.slice(0, -1)
DropLast(s) == IF s = <<>> THEN <<>> ELSE SubSeq(s, 1, Len(s) - 1)

\* s.trim()
RECURSIVE TrimStart(_)
TrimStart(s) ==
  IF s # <<>> /\ Head(s) \in WhiteSpace THEN TrimStart(Tail(s)) ELSE s

RECURSIVE TrimEnd(_)
TrimEnd(s) ==
  IF s # <<>> /\ s[Len(s)] \in WhiteSpace THEN TrimEnd(DropLast(s)) ELSE s

Trim(s) == TrimEnd(TrimStart(s))

\* data.replace(/[\x00-\x1f\x7f]/g, '')
Printable(data) == SelectSeq(data, LAMBDA ch : ch \notin ControlChars \cup {"DEL"})

\* The length of the match of [0-9;]* at the start of s.
RECURSIVE ParamRun(_)
ParamRun(s) ==
  IF s # <<>> /\ Head(s) \in {"0", "1", ";"} THEN 1 + ParamRun(Tail(s)) ELSE 0

\* The length of the match of a pattern of cleanCommand at the start of s, 0 if there
\* is none: /\x1b\[[0-9;]*[A-Za-z]/ (csi), /\x1b[OP][A-D]/ (arrow), /\x1bO[A-Z]/
\* (function).  The character classes are taken over the characters of the model.
MatchAt(pattern, s) ==
  LET IsLetter(ch) == ch \in {"l", "s", "A", "O", "P"}
      IsUpper(ch) == ch \in {"A", "O", "P"}
      n == ParamRun(SubSeq(s, 3, Len(s)))
  IN
  IF Len(s) < 3 \/ s[1] # "ESC" THEN 0
  ELSE CASE pattern = "csi" ->
              IF s[2] = "[" /\ Len(s) >= 3 + n /\ IsLetter(s[3 + n]) THEN 3 + n ELSE 0
         [] pattern = "arrow" ->
              IF s[2] \in {"O", "P"} /\ s[3] \in {"A"} THEN 3 ELSE 0
         [] pattern = "function" ->
              IF s[2] = "O" /\ IsUpper(s[3]) THEN 3 ELSE 0

\* s.replace(pattern, '') with the g flag
RECURSIVE Strip(_, _)
Strip(pattern, s) ==
  IF s = <<>> THEN <<>>
  ELSE IF MatchAt(pattern, s) > 0
       THEN Strip(pattern, SubSeq(s, MatchAt(pattern, s) + 1, Len(s)))
  ELSE <<Head(s)>> \o Strip(pattern, Tail(s))

\* cleanCommand: the inputBuffer without escape sequences and control characters
\* ([\x00-\x1f]), trimmed.
cleanCommand(inputBuffer) ==
  Trim(SelectSeq(Strip("function", Strip("arrow", Strip("csi", inputBuffer))),
                 LAMBDA ch : ch \notin ControlChars))

InitUi == managedTerminals = [t \in TermIds |-> [state |-> "none", inputBuffer |-> <<>>]]

\* createTerminal, once terminal:create has answered with terminalId
ManagerCreate(terminalId) ==
  /\ managedTerminals[terminalId].state = "none"
  /\ managedTerminals' =
       [managedTerminals EXCEPT ![terminalId] = [state |-> "managed", inputBuffer |-> <<>>]]
  /\ lastOp' = [op |-> "createTerminal", terminalId |-> terminalId, requests |-> <<>>,
                events |-> <<>>]
  /\ UNCHANGED <<connVars, tests, termVars, dbVars, now>>

\* The data the xterm of a managed terminal reports: the keys Enter (as \r and as
\* \n), Backspace, CTRL+C, Tab and arrow up, typed characters, and pasted text, which
\* arrives as one datum, with or without a line end.
InputData ==
  {<<"CR">>, <<"LF">>, <<"DEL">>, <<"BS">>, <<"ETX">>, <<"TAB">>, <<"ESC", "[", "A">>,
   <<"l">>, <<"s">>, <<" ">>, <<"l", "s">>, <<"l", "s", "CR">>}

\* window.specter.terminal.logCommand and window.specter.terminal.write
LogCommandRequest(terminalId, command) ==
  [api |-> "logCommand", terminalId |-> terminalId, command |-> command]
WriteRequest(terminalId, data) ==
  [api |-> "write", terminalId |-> terminalId, data |-> data]

\* terminal.onData of the xterm of a managed terminal; a disposed xterm reports no
\* data, so the instance is always found.  requests are the calls it makes, in order.
TerminalInput(terminalId, data) ==
  /\ managedTerminals[terminalId].state = "managed"
  /\ LET inputBuffer == managedTerminals[terminalId].inputBuffer
         enter == data \in {<<"CR">>, <<"LF">>}
         submitted == enter /\ Trim(inputBuffer) # <<>>
         logged == IF submitted /\ cleanCommand(inputBuffer) # <<>>
                   THEN <<LogCommandRequest(terminalId, cleanCommand(inputBuffer))>>
                   ELSE <<>>
         after == IF enter THEN (IF submitted THEN <<>> ELSE inputBuffer)
                  ELSE IF data \in {<<"DEL">>, <<"BS">>} THEN DropLast(inputBuffer)
                  ELSE IF data = <<"ETX">> THEN <<>>
                  ELSE IF Head(data) = "ESC" THEN inputBuffer
                  ELSE IF Head(data) \notin ControlChars \/ Len(data) > 1
                       THEN inputBuffer \o Printable(data)
                  ELSE inputBuffer
     IN
     /\ Len(after) <= MaxInput
     /\ managedTerminals' = [managedTerminals EXCEPT ![terminalId].inputBuffer = after]
     /\ lastOp' = [op |-> "terminal.onData", terminalId |-> terminalId, data |-> data,
                   before |-> inputBuffer,
                   requests |-> logged \o <<WriteRequest(terminalId, data)>>,
                   events |-> <<>>]
  /\ UNCHANGED <<connVars, tests, termVars, dbVars, now>>

\* closeTerminal(terminalId)
ManagerClose(terminalId) ==
  /\ IF managedTerminals[terminalId].state = "managed"
     THEN /\ managedTerminals' = [managedTerminals EXCEPT ![terminalId].state = "disposed"]
          /\ lastOp' = [op |-> "closeTerminal", terminalId |-> terminalId,
                        requests |-> <<[api |-> "close", terminalId |-> terminalId]>>,
                        events |-> <<>>]
     ELSE /\ UNCHANGED managedTerminals
          /\ lastOp' = [op |-> "closeTerminal", terminalId |-> terminalId,
                        requests |-> <<>>, events |-> <<>>]
  /\ UNCHANGED <<connVars, tests, termVars, dbVars, now>>

(***************************************************************************)
(* The stored tables at start: one target, in vault v1.                    *)
(***************************************************************************)
InitDb ==
  /\ targets = {[id |-> "t1", vault_id |-> "v1"]}
  /\ targetMeta = [t \in {"t1"} |-> [detectedServices |-> <<>>, lastScanTime |-> NoTime]]
  /\ attack_path_progress = {}

(***************************************************************************)
(* SpecConn: the connection manager alone.                                 *)
(***************************************************************************)
Init ==
  /\ InitConn
  /\ InitTests
  /\ InitTerm
  /\ InitDb
  /\ InitUi
  /\ now = 1
  /\ lastOp = [op |-> "init", events |-> <<>>]

NextConn ==
  \/ \E cfg \in VMConfigs : VmConnect(cfg)
  \/ \E c \in ClientIds : OnReady(c)
  \/ \E c \in ClientIds, msg \in ErrMessages : OnError(c, msg)
  \/ \E c \in ClientIds : OnClose(c)
  \/ VmDisconnect
  \/ Tick

SpecConn == Init /\ [][NextConn]_vars

(***************************************************************************)
(* SpecConnLive: SpecConn with the events the library owes a client.  An   *)
(* attempt ends in ready or, at the latest when readyTimeout expires, in   *)
(* error; a connection that failed or was ended emits close.               *)
(***************************************************************************)
FairConn ==
  \A c \in ClientIds :
    /\ WF_vars(client[c] = "connecting"
                 /\ (OnReady(c) \/ \E msg \in ErrMessages : OnError(c, msg)))
    /\ WF_vars(client[c] \in {"failed", "errored", "ending"} /\ OnClose(c))

SpecConnLive == Init /\ [][NextConn]_vars /\ FairConn

(***************************************************************************)
(* SpecSess: the connection manager together with the creation and the     *)
(* teardown of sessions.                                                   *)
(***************************************************************************)
NextSess ==
  \/ \E cfg \in VMConfigs :
       /\ AlreadyConnected \/ Cardinality({c \in ClientIds : client[c] # "none"}) < MaxSessClients
       /\ VmConnect(cfg)
  \/ \E c \in ClientIds : OnReady(c)
  \/ \E c \in ClientIds, msg \in ErrMessages : OnError(c, msg)
  \/ \E c \in ClientIds : OnClose(c)
  \/ VmDisconnect
  \/ /\ isVMConnected =>
          Cardinality({t \in TermIds : channel[t].state # "none"}) < MaxSessTerminals
     /\ TerminalCreate("v1")
  \/ \E req \in shellReq : ShellOpened(req)
  \/ \E req \in shellReq : ShellFailed(req)
  \/ \E id \in TermIds : TerminalClose(id)
  \/ \E t \in TermIds : ChannelClose(t)

SpecSess == Init /\ [][NextSess]_vars

(***************************************************************************)
(* SpecWrite: SpecSess together with terminal:write and terminal:resize.   *)
(***************************************************************************)
NextWrite ==
  \/ NextSess
  \/ \E id \in TermIds, data \in Inputs : TerminalWrite(id, data)
  \/ \E id \in TermIds, size \in WindowSizes : TerminalResize(id, size[1], size[2])

SpecWrite == Init /\ [][NextWrite]_vars

(***************************************************************************)
(* SpecTest: SpecSess together with vm:test.                               *)
(***************************************************************************)
NextTest ==
  \/ NextSess
  \/ \E cfg \in VMConfigs : VmTest(cfg)
  \/ \E k \in TestIds : TestReady(k)
  \/ \E k \in TestIds, msg \in ErrMessages : TestError(k, msg)
  \/ \E k \in TestIds : TestTimeout(k)

SpecTest == Init /\ [][NextTest]_vars

(***************************************************************************)
(* SpecTerm: the command tracker of one session.  It starts in the state   *)
(* SpecConn reaches by vm:connect and the ready event, the connection      *)
(* stays up, and one session is opened.                                    *)
(***************************************************************************)
ConnectedCfg == [host |-> "h1", username |-> "u1", keyFile |-> TRUE, password |-> TRUE]

InitConnected ==
  /\ sshClient = 1
  /\ vmStatus = StatusConnected(ConnectedCfg)
  /\ connectionStartTime = 1
  /\ client = [c \in ClientIds |-> IF c = 1 THEN "ready" ELSE "none"]
  /\ clientAuth = [c \in ClientIds |-> IF c = 1 THEN AuthOf(ConnectedCfg) ELSE Undef]
  /\ clientCfg = [c \in ClientIds |-> IF c = 1 THEN ConnectedCfg ELSE Undef]
  /\ connectPromise = [c \in ClientIds |-> IF c = 1 THEN "success" ELSE "none"]
  /\ InitTests
  /\ InitTerm
  /\ InitDb
  /\ InitUi
  /\ now = 1
  /\ lastOp = [op |-> "ready", client |-> 1,
               events |-> <<broadcastStatus(vmStatus, connectionStartTime, now)>>]

NextTerm ==
  \/ \E v \in VaultIds :
       /\ \A t \in TermIds : channel[t].state = "none"
       /\ TerminalCreate(v)
  \/ \E req \in shellReq : ShellOpened(req)
  \/ \E req \in shellReq : ShellFailed(req)
  \/ \E t \in TermIds, text \in Chunks : ChannelData(t, text)
  \/ \E t \in TermIds, text \in Chunks : StderrData(t, text)
  \/ \E id \in TermIds, command \in Commands : LogCommand(id, command)
  \/ \E id \in TermIds : TerminalClose(id)
  \/ \E t \in TermIds : ChannelClose(t)

SpecTerm == InitConnected /\ [][NextTerm]_vars

(***************************************************************************)
(* SpecTermWrite: SpecTerm together with terminal:write.                   *)
(***************************************************************************)
NextTermWrite ==
  \/ NextTerm
  \/ \E id \in TermIds, data \in Inputs : TerminalWrite(id, data)

SpecTermWrite == InitConnected /\ [][NextTermWrite]_vars

(***************************************************************************)
(* SpecClose: sessions on an established connection that the remote side   *)
(* closes.  No vm:disconnect here: every close of the client is remote.    *)
(* When the connection of a client has closed, ssh2 emits 'close' on each  *)
(* channel of that client that is still live; the fairness condition says  *)
(* that this callback is eventually run.                                   *)
(***************************************************************************)
\* The channel of terminal t is live and belongs to a client whose connection closed.
ChannelOfClosedClient(t) ==
  /\ ChannelLive(t)
  /\ client[channel[t].client] = "closed"

NextClose ==
  \/ TerminalCreate("v1")
  \/ \E req \in shellReq : ShellOpened(req)
  \/ \E req \in shellReq : ShellFailed(req)
  \/ \E t \in TermIds, text \in {ChunkLine, ChunkPrompt} : ChannelData(t, text)
  \/ \E id \in TermIds : LogCommand(id, "whoami")
  \/ \E id \in TermIds : TerminalClose(id)
  \/ \E c \in ClientIds : OnClose(c)
  \/ \E t \in TermIds : ChannelClose(t)

FairClose == \A t \in TermIds : WF_vars(ChannelOfClosedClient(t) /\ ChannelClose(t))

SpecClose == InitConnected /\ [][NextClose]_vars /\ FairClose

(***************************************************************************)
(* SpecPath: the output analyzer and the attack path progress store.       *)
(***************************************************************************)
NextPath ==
  \/ \E targetId \in TargetIds, text \in OutputTexts : Analyze(targetId, text)
  \/ \E targetId \in TargetIds, pathId \in PathIds, stepId \in StepIds,
        status \in Statuses, d \in Details :
       UpdateProgress(targetId, pathId,
                      [stepId |-> stepId, status |-> status, notes |-> d.notes,
                       findingsCount |-> d.findingsCount])
  \/ \E targetId \in TargetIds, pathId \in PathIds, status \in Statuses :
       UpdatePath(targetId, pathId, status)

SpecPath == Init /\ [][NextPath]_vars

(***************************************************************************)
(* SpecInput: the input of the terminals the renderer's manager holds.     *)
(***************************************************************************)
NextInput ==
  \/ \E terminalId \in TermIds : ManagerCreate(terminalId)
  \/ \E terminalId \in TermIds, data \in InputData : TerminalInput(terminalId, data)
  \/ \E terminalId \in TermIds : ManagerClose(terminalId)

SpecInput == Init /\ [][NextInput]_vars

(***************************************************************************)
(* The claims.                                                             *)
(***************************************************************************)

\* The concatenation of a sequence of chunks, in order.
RECURSIVE ConcatAll(_)
ConcatAll(cs) == IF cs = <<>> THEN <<>> ELSE TConcat(cs[1], ConcatAll(Tail(cs)))

\* The calls of logCommandToDb made for the command started as number c.
RecordsOf(c) == {k \in 1..Len(flushed) : flushed[k].cmd = c}

\* C1: a terminal:create request made while vmStatus.connected is false returns
\* the "VM not connected" failure and changes nothing of the session registry: no
\* session, no channel, no pending shell request.
C1_CreateNeedsConnection ==
  [][(~vmStatus.connected /\ lastOp'.op = "terminal:create")
       => /\ lastOp'.result = "NotConnected"
          /\ UNCHANGED termVars]_vars

\* C1 witness: the request was refused while a connect attempt was under way.
C1_Witness ==
  /\ lastOp.op = "terminal:create"
  /\ lastOp.result = "NotConnected"
  /\ vmStatus.connecting
  /\ sshClient # NoClient

\* The text ends in "$ ".
EndsInDollarSpace(text) ==
  /\ Len(text) >= 2
  /\ text[Len(text)] = Run(" ", 1)
  /\ text[Len(text) - 1].ch = "$"

\* The case of C2: the command of call f, of a vault with a target, was completed by
\* a chunk ending in "$ " after chunks none of which matches a prompt pattern.
PromptScenario(f) ==
  /\ f.site = "data"
  /\ f.row # 0
  /\ EndsInDollarSpace(f.chunks[Len(f.chunks)])
  /\ \A i \in 1..(Len(f.chunks) - 1) : ~ChunkIsPrompt[f.chunks[i]]

\* C2 as stated: in that case exactly one record is produced for the command, its
\* output is the concatenation of the chunks before the prompt chunk, cut to the last
\* 10,000 characters, and the category of "nmap -sV 10.0.0.1" is recon.
C2_OutputWithoutPrompt ==
  \A k \in 1..Len(flushed) :
    LET f == flushed[k] IN
    PromptScenario(f) =>
      /\ RecordsOf(f.cmd) = {k}
      /\ command_logs[f.row].command = f.command
      /\ command_logs[f.row].output =
           SliceLast(ConcatAll(SubSeq(f.chunks, 1, Len(f.chunks) - 1)), OutputLimit)
      /\ (f.command = "nmap -sV 10.0.0.1" => command_logs[f.row].category = "recon")

\* C2 amended: in that case exactly one record is produced for the command, its
\* output is the concatenation of the chunks up to and including the prompt chunk,
\* cut to the last 10,000 characters, and the category of "nmap -sV 10.0.0.1" is recon.
C2_OutputWithPrompt ==
  \A k \in 1..Len(flushed) :
    LET f == flushed[k] IN
    PromptScenario(f) =>
      /\ RecordsOf(f.cmd) = {k}
      /\ command_logs[f.row].command = f.command
      /\ command_logs[f.row].output = SliceLast(ConcatAll(f.chunks), OutputLimit)
      /\ (f.command = "nmap -sV 10.0.0.1" => command_logs[f.row].category = "recon")

\* C2 witness: the nmap command was completed by the prompt after 12,000 characters
\* of output, more than the stored record keeps.
C2_Witness ==
  \E k \in 1..Len(flushed) :
    /\ PromptScenario(flushed[k])
    /\ flushed[k].command = "nmap -sV 10.0.0.1"
    /\ flushed[k].chunks = <<ChunkBig, ChunkBig, ChunkPrompt>>
    /\ TLen(command_logs[flushed[k].row].output) = OutputLimit

\* C3: no started command is lost.  A started command is either still pending on a
\* session whose channel has not closed, or exactly one record was produced for it,
\* holding the output accumulated for it; so once a session is closed with its
\* command pending, the command has exactly one record.
C3_CloseKeepsCommand ==
  \A c \in 1..cmdSeq :
    \/ /\ RecordsOf(c) = {}
       /\ \E t \in TermIds : rx[t].cmd = c /\ HasPending(session[t]) /\ ChannelLive(t)
    \/ /\ Cardinality(RecordsOf(c)) = 1
       /\ \A k \in RecordsOf(c) :
            /\ flushed[k].output = ConcatAll(flushed[k].chunks)
            /\ flushed[k].site = "close" => channel[flushed[k].terminal].state = "closed"

\* C3 witness: terminal:close was requested with a command pending and output
\* captured, the channel then closed, and the close produced the command's record.
C3_Witness ==
  /\ lastOp.op = "channel:close"
  /\ lastOp.was = "closing"
  /\ flushed # <<>>
  /\ flushed[Len(flushed)].site = "close"
  /\ flushed[Len(flushed)].chunks # <<>>
  /\ flushed[Len(flushed)].terminal = lastOp.terminalId

\* The entries of the key (targetId, pathId, stepId) in a table.
EntriesOf(rows, targetId, pathId, stepId) ==
  {r \in rows : r.target_id = targetId /\ r.path_id = pathId /\ r.step_id = stepId}

\* C4: a step of analysis:analyze (analyze -> updatePathProgress) leaves every entry
\* that has status completed as it is, whatever sequence of analyze calls and operator
\* updates came before.
C4_CompletedKept ==
  [][lastOp'.op = "analysis:analyze"
       => \A r \in attack_path_progress :
            r.status = "completed" => r \in attack_path_progress']_vars

\* C4 witness: analyze has raised the signal of path recon for the target while the
\* entry the engine writes for that path is completed and a second entry of the path
\* is present, so the SELECT had two rows to find.
C4_Witness ==
  /\ lastOp.op = "analysis:analyze"
  /\ lastOp.result = "Success"
  /\ lastOp.targetId = "t1"
  /\ \E k \in 1..Len(lastOp.pathProgress) : lastOp.pathProgress[k].path = "recon"
  /\ \E r \in EntriesOf(attack_path_progress, "t1", "recon", "recon_detect") :
       r.status = "completed"
  /\ EntriesOf(attack_path_progress, "t1", "recon", "recon-1") # {}

\* C5: after db:attackPaths:updateProgress for a key of a stored target exactly one
\* entry exists for the key and its status is the requested one, whether the entry
\* was absent or present with any status, completed included; no key has two entries.
C5_OperatorUpsert ==
  [][(lastOp'.op = "db:attackPaths:updateProgress" /\ TargetExists(lastOp'.targetId))
       => /\ lastOp'.result = "Success"
          /\ \E r \in attack_path_progress' :
               /\ r.status = lastOp'.data.status
               /\ EntriesOf(attack_path_progress', lastOp'.targetId, lastOp'.pathId,
                            lastOp'.data.stepId) = {r}]_vars

\* C5 witness: the operator has set a completed entry back to pending.
C5_Witness ==
  /\ lastOp.op = "db:attackPaths:updateProgress"
  /\ lastOp.result = "Success"
  /\ lastOp.was = "completed"
  /\ lastOp.data.status = "pending"
  /\ \E r \in EntriesOf(attack_path_progress, lastOp.targetId, lastOp.pathId,
                        lastOp.data.stepId) : r.status = "pending"

\* The names of the services stored for a target.
StoredNames(meta, targetId) ==
  {meta[targetId].detectedServices[k].name : k \in 1..Len(meta[targetId].detectedServices)}

\* No two services stored for a target have the same name.
NoDuplicateNames ==
  \A targetId \in DOMAIN targetMeta :
    Cardinality(StoredNames(targetMeta, targetId)) = Len(targetMeta[targetId].detectedServices)

\* C6: an analyze call that repeats the call before it, with the same target and
\* text, leaves the stored detectedServices of every target as the first call left
\* them, and the stored services never hold two entries of one name.
C6_AnalyzeTwice ==
  /\ []NoDuplicateNames
  /\ [][(lastOp'.op = "analysis:analyze" /\ lastOp'.again)
          => \A targetId \in DOMAIN targetMeta :
               targetMeta'[targetId].detectedServices = targetMeta[targetId].detectedServices]_vars

\* C6 witness: analyze was called twice in a row with the same target and a text in
\* which a service is detected, and the services of that text are stored.
C6_Witness ==
  /\ lastOp.op = "analysis:analyze"
  /\ lastOp.again
  /\ lastOp.targetId = "t1"
  /\ ServicesOf[lastOp.text] # <<>>
  /\ targetMeta["t1"].detectedServices = ServicesOf[lastOp.text]

\* C7 as stated: analyze merges by name.  After an analyze call for a stored target
\* every name stored before the call is still stored, and each service the call
\* detected is the stored entry of its name.
C7_MergeByName ==
  [][(lastOp'.op = "analysis:analyze" /\ TargetExists(lastOp'.targetId))
       => /\ StoredNames(targetMeta, lastOp'.targetId)
               \subseteq StoredNames(targetMeta', lastOp'.targetId)
          /\ \A k \in 1..Len(ServicesOf[lastOp'.text]) :
               \E j \in 1..Len(targetMeta'[lastOp'.targetId].detectedServices) :
                 targetMeta'[lastOp'.targetId].detectedServices[j] = ServicesOf[lastOp'.text][k]]_vars

\* C8 as stated: vm:connect called while vmStatus.connected returns success, makes
\* no new client, leaves the connection state unchanged and sends no notification.
C8_ConnectWhenConnected ==
  [][(vmStatus.connected /\ lastOp'.op = "vm:connect")
       => /\ lastOp'.result = "AlreadyConnected"
          /\ lastOp'.events = <<>>
          /\ UNCHANGED connVars]_vars

\* C9 as stated: at most one client is live or being established.
C9_OneClient ==
  Cardinality({c \in ClientIds : client[c] \in {"connecting", "ready"}}) <= 1

\* C10 as stated: after the error event of a failed attempt the state is
\* Disconnected with lastError the failure's message, and lastError is still set
\* after the close event that follows the error.
C10_LastErrorKept ==
  /\ (lastOp.op = "error" /\ client[lastOp.client] = "failed")
       => vmStatus = StatusError(lastOp.message)
  /\ (lastOp.op = "close" /\ lastOp.was = "failed")
       => /\ ~vmStatus.connected
          /\ ~vmStatus.connecting
          /\ vmStatus.lastError \in ErrMessages

\* C11: vm:disconnect, in whatever phase it is called, ends with vmStatus neither
\* connected nor connecting, sshClient null and connectionStartTime null, and sends one
\* vm:status-changed notification of that state; called again right after a
\* vm:disconnect it leaves the connection state as it was.
C11_DisconnectAlways ==
  [][lastOp'.op = "vm:disconnect"
       => /\ vmStatus' = [connected |-> FALSE, connecting |-> FALSE, host |-> Undef,
                          username |-> Undef, lastError |-> Undef]
          /\ sshClient' = NoClient
          /\ connectionStartTime' = NoTime
          /\ Len(lastOp'.events) = 1
          /\ lastOp'.events[1].ev = "vm:status-changed"
          /\ ~lastOp'.events[1].status.connected
          /\ ~lastOp'.events[1].status.connecting
          /\ lastOp'.events[1].status.uptime = NoTime
          /\ (lastOp.op = "vm:disconnect" => UNCHANGED connVars)]_vars

\* C11 witness: vm:disconnect was called with no client held, after an earlier
\* vm:disconnect ended an established connection.
C11_Witness ==
  /\ lastOp.op = "vm:disconnect"
  /\ lastOp.held = NoClient
  /\ \E c \in ClientIds : client[c] = "ending" /\ connectPromise[c] = "success"
  /\ vmStatus = StatusIdle
  /\ sshClient = NoClient
  /\ connectionStartTime = NoTime

\* C13 as stated: connectionStartTime is set exactly when vmStatus.connected.
C13_StartTimeIffConnected ==
  (connectionStartTime # NoTime) <=> vmStatus.connected

\* C12: no step of vm:test (the call, and the ready, error and timeout callbacks of
\* its client) changes sshClient, vmStatus, connectionStartTime or a client of
\* vm:connect, nor a session, a channel or a stored command, and none sends a
\* notification.
C12_TestLeavesConnection ==
  [][lastOp'.op \in {"vm:test", "test:ready", "test:error", "test:timeout"}
       => /\ UNCHANGED <<sshClient, vmStatus, connectionStartTime, client, clientAuth,
                         clientCfg, connectPromise>>
          /\ UNCHANGED <<terminals, session, channel, shellReq, command_logs>>
          /\ lastOp'.events = <<>>]_vars

\* C12 witness: a vm:test call has succeeded while the connection is established
\* and a session is open on it.
C12_Witness ==
  /\ lastOp.op = "test:ready"
  /\ tests[lastOp.test].promise = "success"
  /\ vmStatus.connected
  /\ sshClient # NoClient
  /\ client[sshClient] = "ready"
  /\ \E t \in terminals : channel[t].state = "open" /\ channel[t].client = sshClient

\* C15: terminal:write and terminal:resize with an id that is not in the session
\* registry return the failure, call nothing on any channel and change no state.
C15_UnknownSession ==
  [][(/\ lastOp'.op \in {"terminal:write", "terminal:resize"}
      /\ lastOp'.terminalId \notin terminals)
       => /\ lastOp'.result = "TerminalNotFound"
          /\ lastOp'.sent = <<>>
          /\ lastOp'.events = <<>>
          /\ UNCHANGED <<connVars, tests, termVars, dbVars, uiVars, now>>]_vars

\* C15 witness: a write under the id of a session that was closed and removed
\* from the registry.
C15_Witness ==
  /\ lastOp.op = "terminal:write"
  /\ lastOp.terminalId \notin terminals
  /\ channel[lastOp.terminalId].state \in {"closing", "closed"}
  /\ lastOp.result = "TerminalNotFound"

\* C16 as stated: every chunk that arrives on a session's channel (data or stderr)
\* is passed to the output analyzer, tagged with the session and its target.
C16_ChunkAnalyzed ==
  [][lastOp'.op \in {"channel:data", "channel:stderr"}
       => /\ Len(lastOp'.analyzed) = 1
          /\ lastOp'.analyzed[1].terminalId = lastOp'.terminalId
          /\ lastOp'.analyzed[1].targetId = TargetOfVault(session[lastOp'.terminalId].vaultId)
          /\ lastOp'.analyzed[1].text = lastOp'.data]_vars

\* C17: for one session, a chunk that arrives on the channel (data or stderr) is
\* broadcast at once, as one terminal:data notification carrying that chunk; and while
\* a command is pending its outputBuffer is the chunks that arrived since the command
\* started, each once, in the order of arrival. A command completed by the arriving
\* chunk is stored with that same text.
C17_OrderKept ==
  [][/\ \A t \in TermIds :
          HasPending(session'[t]) => session'[t].outputBuffer = ConcatAll(rx'[t].chunks)
     /\ lastOp'.op \in {"channel:data", "channel:stderr"}
          => LET t == lastOp'.terminalId
                 text == lastOp'.data
             IN /\ lastOp'.events =
                     <<[ev |-> "terminal:data", terminalId |-> t, data |-> text]>>
                /\ HasPending(session[t])
                     => IF HasPending(session'[t])
                        THEN /\ rx'[t].chunks = Append(rx[t].chunks, text)
                             /\ session'[t].outputBuffer =
                                  TConcat(session[t].outputBuffer, text)
                        ELSE /\ Len(flushed') = Len(flushed) + 1
                             /\ flushed'[Len(flushed')].chunks = Append(rx[t].chunks, text)
                             /\ flushed'[Len(flushed')].output =
                                  ConcatAll(Append(rx[t].chunks, text))]_vars

\* C17 witness: two different chunks have arrived for the pending command, the
\* second just now.
C17_Witness ==
  \E t \in TermIds :
    /\ lastOp.op \in {"channel:data", "channel:stderr"}
    /\ lastOp.terminalId = t
    /\ HasPending(session[t])
    /\ Len(rx[t].chunks) = 2
    /\ rx[t].chunks[1] # rx[t].chunks[2]
    /\ rx[t].chunks[2] = lastOp.data

\* C18 as stated: in every state a session's outputBuffer holds at most 10,000
\* characters.
C18_BufferBounded ==
  \A t \in TermIds : TLen(session[t].outputBuffer) <= OutputLimit

\* C19: terminal:logCommand on a session that has a pending command first completes
\* that command: logCommandToDb is called once for it, with its text, the output
\* accumulated so far and its duration, and the record (when the vault has a target) is
\* appended to command_logs. After that the new command is pending with an empty
\* outputBuffer and commandStartTime = now, so that what is accumulated from then on
\* belongs to the new command only.
C19_StartFlushesPending ==
  [][(/\ lastOp'.op = "terminal:logCommand"
      /\ lastOp'.result = "success"
      /\ HasPending(session[lastOp'.terminalId]))
       => LET id == lastOp'.terminalId
              old == session[id]
              call == flushed'[Len(flushed')]
              rows == logCommandToDb(old.vaultId, old.pendingCommand, old.outputBuffer,
                                     now - old.commandStartTime)
          IN /\ Len(flushed') = Len(flushed) + 1
             /\ \A k \in 1..Len(flushed) : flushed'[k] = flushed[k]
             /\ call.cmd = rx[id].cmd
             /\ call.terminal = id
             /\ call.command = old.pendingCommand
             /\ call.output = old.outputBuffer
             /\ call.output = ConcatAll(rx[id].chunks)
             /\ call.duration = now - old.commandStartTime
             /\ command_logs' = command_logs \o rows
             /\ session'[id].pendingCommand = lastOp'.command
             /\ session'[id].outputBuffer = <<>>
             /\ session'[id].commandStartTime = now
             /\ rx'[id].cmd # rx[id].cmd
             /\ rx'[id].chunks = <<>>]_vars

\* C19 witness: a second command was started on a session while the first was
\* pending with output captured, and the first was stored.
C19_Witness ==
  /\ lastOp.op = "terminal:logCommand"
  /\ lastOp.result = "success"
  /\ flushed # <<>>
  /\ flushed[Len(flushed)].site = "logCommand"
  /\ flushed[Len(flushed)].terminal = lastOp.terminalId
  /\ flushed[Len(flushed)].chunks # <<>>
  /\ flushed[Len(flushed)].row = Len(command_logs)
  /\ flushed[Len(flushed)].command # lastOp.command
  /\ session[lastOp.terminalId].pendingCommand = lastOp.command

\* C20: every call of logCommandToDb is made for a started command that is pending at
\* that moment, each started command has at most one such call and at most one row in
\* command_logs, whatever the interleaving of prompt chunks, terminal:logCommand
\* requests, terminal:close requests and channel close events.
C20_AtMostOneRecord ==
  /\ \A k \in 1..Len(flushed) : flushed[k].cmd \in 1..cmdSeq
  /\ \A c \in 1..cmdSeq : Cardinality(RecordsOf(c)) <= 1
  /\ \A j, k \in 1..Len(flushed) :
       (flushed[j].row # 0 /\ flushed[j].row = flushed[k].row) => j = k
  /\ Len(command_logs) = Cardinality({k \in 1..Len(flushed) : flushed[k].row # 0})

\* C20 witness: a command was completed by a prompt chunk, terminal:close was then
\* requested and the channel closed; the command still has its one record.
C20_Witness ==
  /\ lastOp.op = "channel:close"
  /\ lastOp.was = "closing"
  /\ cmdSeq = 1
  /\ Len(flushed) = 1
  /\ flushed[1].site = "data"
  /\ flushed[1].terminal = lastOp.terminalId
  /\ flushed[1].row = 1
  /\ Len(command_logs) = 1

\* C14: after the connection of the client has closed from the remote side, every
\* session that is registered on it is eventually closed, and a channel is closed by
\* its close callback only, which takes the session out of the registry, completes the
\* pending command (one logCommandToDb call with the output accumulated for it) and
\* sends terminal:exit for the session.
C14_CascadeClose ==
  /\ \A t \in TermIds :
       (t \in terminals /\ ChannelLive(t) /\ client[channel[t].client] = "closed")
         ~> (channel[t].state = "closed" /\ t \notin terminals /\ ~HasPending(session[t]))
  /\ [][\A t \in TermIds :
          (channel[t].state # "closed" /\ channel'[t].state = "closed")
            => /\ lastOp'.op = "channel:close"
               /\ lastOp'.terminalId = t
               /\ lastOp'.events = <<[ev |-> "terminal:exit", terminalId |-> t]>>
               /\ t \notin terminals'
               /\ ~HasPending(session'[t])
               /\ IF HasPending(session[t])
                  THEN /\ Len(flushed') = Len(flushed) + 1
                       /\ flushed'[Len(flushed')].cmd = rx[t].cmd
                       /\ flushed'[Len(flushed')].command = session[t].pendingCommand
                       /\ flushed'[Len(flushed')].output = session[t].outputBuffer
                       /\ command_logs' = command_logs \o CompletedRows(session[t], now)
                  ELSE flushed' = flushed /\ command_logs' = command_logs]_vars

\* C14 witness: the connection closed with a session open and a command pending on
\* it with output captured; the channel's close callback then stored the command.
C14_Witness ==
  /\ lastOp.op = "channel:close"
  /\ lastOp.was = "open"
  /\ client[channel[lastOp.terminalId].client] = "closed"
  /\ flushed # <<>>
  /\ flushed[Len(flushed)].site = "close"
  /\ flushed[Len(flushed)].terminal = lastOp.terminalId
  /\ flushed[Len(flushed)].chunks # <<>>

\* C21: when the vault of the session has no target, a step that completes the
\* pending command (by a prompt chunk, by terminal:logCommand or by the channel's
\* close) makes its logCommandToDb call but inserts no row into command_logs; the
\* session's pendingCommand, commandStartTime and outputBuffer are cleared all the same
\* (terminal:logCommand then starts the new command), and the request does not fail.
C21_NoTargetNoRecord ==
  [][\A t \in TermIds :
       (/\ HasPending(session[t])
        /\ TargetOfVault(session[t].vaultId) = Undef
        /\ Len(flushed') = Len(flushed) + 1
        /\ flushed'[Len(flushed')].terminal = t)
         => /\ command_logs' = command_logs
            /\ flushed'[Len(flushed')].row = 0
            /\ flushed'[Len(flushed')].command = session[t].pendingCommand
            /\ IF lastOp'.op = "terminal:logCommand"
               THEN /\ lastOp'.result = "success"
                    /\ session'[t] = [NewSession(session[t].vaultId) EXCEPT
                                        !.pendingCommand = lastOp'.command,
                                        !.commandStartTime = now]
               ELSE session'[t] = NewSession(session[t].vaultId)]_vars

\* C21 witness: a prompt chunk completed a command with output captured on a session
\* of vault v2, which has no target; nothing was stored.
C21_Witness ==
  /\ lastOp.op = "channel:data"
  /\ flushed # <<>>
  /\ flushed[Len(flushed)].site = "data"
  /\ flushed[Len(flushed)].terminal = lastOp.terminalId
  /\ flushed[Len(flushed)].vaultId = "v2"
  /\ flushed[Len(flushed)].row = 0
  /\ Len(flushed[Len(flushed)].chunks) >= 2
  /\ command_logs = <<>>
  /\ ~HasPending(session[lastOp.terminalId])

\* C22 as stated: every row of attack_path_progress has a status among pending,
\* in_progress, completed and skipped (a row the analyzer creates for a path without
\* row having status in_progress).
C22_StatusInDomain ==
  \A r \in attack_path_progress :
    r.status \in {"pending", "in_progress", "completed", "skipped"}

\* C23 as stated: the answer of analysis:analyze carries the services and the
\* pathProgress computed from the text also when storing them failed.
C23_ResultsDespiteFailure ==
  [][lastOp'.op = "analysis:analyze"
       => /\ "services" \in DOMAIN lastOp'
          /\ "pathProgress" \in DOMAIN lastOp'
          /\ lastOp'.services = ServicesOf[lastOp'.text]
          /\ lastOp'.pathProgress = detectPathProgress(lastOp'.text, now)]_vars

\* The scenario of the text "22/tcp open ssh OpenSSH 8.2": analysis:analyze has
\* answered for it.
SshScenario ==
  /\ lastOp.op = "analysis:analyze"
  /\ lastOp.text = "22/tcp open ssh OpenSSH 8.2"
  /\ lastOp.result = "Success"

\* Some recommendation has category "Brute Force" and a command that contains "hydra".
HasHydraBruteForce(recommendations) ==
  \E k \in 1..Len(recommendations) :
    /\ recommendations[k].category = "Brute Force"
    /\ \E j \in 1..Len(recommendations[k].commands) :
         Includes(TemplateChars(recommendations[k].commands[j]), <<"h", "y", "d", "r", "a">>)

\* C24 as stated: for the text "22/tcp open ssh OpenSSH 8.2" the services are exactly
\* <<[name: "ssh", confidence: 0.9]>>, and the recommendations have a "Brute Force"
\* entry with a hydra command.
C24_SshScenarioAsStated ==
  SshScenario
    => /\ lastOp.services = <<[name |-> "ssh", confidence |-> "0.9"]>>
       /\ HasHydraBruteForce(lastOp.recommendations)

\* C24, amended: for the text "22/tcp open ssh OpenSSH 8.2" the services are exactly one
\* entry, of name ssh, with port 22 (the first capture group of the first match), no
\* version and confidence 0.9; the recommendations are those of ssh and have a
\* "Brute Force" entry with a hydra command.
C24_SshScenario ==
  SshScenario
    => /\ lastOp.services = <<[name |-> "ssh", port |-> 22, confidence |-> "0.9"]>>
       /\ \A k \in 1..Len(lastOp.recommendations) : lastOp.recommendations[k].service = "ssh"
       /\ HasHydraBruteForce(lastOp.recommendations)

\* C24 witness: the text was analyzed for the target and its service was stored.
C24_Witness ==
  /\ SshScenario
  /\ lastOp.targetId = "t1"
  /\ Len(lastOp.recommendations) = 2
  /\ Len(targetMeta["t1"].detectedServices) = 1
  /\ targetMeta["t1"].detectedServices[1].name = "ssh"

C26_UpdatePathUpserts ==
  [][(lastOp'.op = "analysis:updatePath" /\ TargetExists(lastOp'.targetId))
       => \E r \in attack_path_progress' :
            /\ r.target_id = lastOp'.targetId
            /\ r.path_id = lastOp'.pathId
            /\ r.status = lastOp'.status]_vars

\* C27 as stated: in every state, if the session registry is not empty then the
\* connection is established.
C27_SessionsNeedConnection ==
  terminals # {} => (vmStatus.connected /\ sshClient # NoClient)

\* C28: terminal:write with the id of a registered session calls write(data) on the
\* channel of that session, with the data of the request, and nothing else: it returns
\* success, no session's pendingCommand, commandStartTime or outputBuffer changes, no
\* logCommandToDb call is made, no row is stored and nothing is broadcast.
C28_WriteForwardsOnly ==
  [][(lastOp'.op = "terminal:write" /\ lastOp'.terminalId \in terminals)
       => /\ lastOp'.result = "success"
          /\ lastOp'.sent = <<[channel |-> lastOp'.terminalId, call |-> "write",
                               args |-> <<lastOp'.data>>]>>
          /\ lastOp'.events = <<>>
          /\ UNCHANGED <<session, command_logs, flushed, rx, cmdSeq>>
          /\ UNCHANGED <<terminals, channel, shellReq>>
          /\ UNCHANGED <<connVars, tests, dbVars, uiVars, now>>]_vars

\* C28 witness: data was written to a session that has a command pending with output
\* captured.
C28_Witness ==
  /\ lastOp.op = "terminal:write"
  /\ lastOp.result = "success"
  /\ lastOp.terminalId \in terminals
  /\ HasPending(session[lastOp.terminalId])
  /\ session[lastOp.terminalId].outputBuffer # <<>>

\* C29 as stated: in no state is a session out of the registry while its pending
\* command is still not completed.
C29_FlushedBeforeRemoved ==
  \A t \in TermIds : (t \notin terminals) => ~HasPending(session[t])

\* C30: a chunk (data or stderr, prompt or not) that arrives at a session with no
\* pending command is broadcast and nothing more: no logCommandToDb call, no row, and
\* the session is unchanged; and in every state a session with no pending command has
\* an empty outputBuffer and no commandStartTime.
C30_IdleSessionUntouched ==
  /\ [](\A t \in TermIds :
          ~HasPending(session[t])
            => session[t].outputBuffer = <<>> /\ session[t].commandStartTime = NoTime)
  /\ [][(/\ lastOp'.op \in {"channel:data", "channel:stderr"}
         /\ ~HasPending(session[lastOp'.terminalId]))
          => /\ UNCHANGED <<session, command_logs, flushed, rx, cmdSeq>>
             /\ lastOp'.events = <<[ev |-> "terminal:data",
                                    terminalId |-> lastOp'.terminalId,
                                    data |-> lastOp'.data]>>]_vars

\* C30 witness: after a command was completed by a prompt, a prompt-matching chunk
\* arrived on stderr of the session, which has no pending command.
C30_Witness ==
  /\ lastOp.op = "channel:stderr"
  /\ ChunkIsPrompt[lastOp.data]
  /\ ~HasPending(session[lastOp.terminalId])
  /\ Len(flushed) = 1
  /\ flushed[1].site = "data"
  /\ flushed[1].terminal = lastOp.terminalId

\* The text t ends with the text s.
TEndsWith(t, s) ==
  \/ s = <<>>
  \/ /\ Len(s) <= Len(t)
     /\ LET d == Len(t) - Len(s) IN
        /\ \A j \in 2..Len(s) : s[j] = t[d + j]
        /\ s[1].ch = t[d + 1].ch
        /\ IF d = 0 THEN s[1].n <= t[1].n
           ELSE s[1].n <= t[d + 1].n

\* C31: the output of a stored row is the end of the output accumulated for the
\* command: the whole of it when it has at most 10,000 characters, its last 10,000
\* characters otherwise.
C31_StoredOutputIsTail ==
  \A k \in 1..Len(flushed) :
    LET f == flushed[k] IN
    f.row # 0 =>
      LET stored == command_logs[f.row].output IN
      /\ TEndsWith(f.output, stored)
      /\ TLen(stored) <= OutputLimit
      /\ TLen(stored) = IF TLen(f.output) <= OutputLimit THEN TLen(f.output) ELSE OutputLimit
      /\ TLen(f.output) <= OutputLimit => stored = f.output

\* C31 witness: a command with 12,003 characters of output, the last three of them a
\* line, was stored with its last 10,000 characters, and another one with its whole
\* short output.
C31_Witness ==
  /\ \E k \in 1..Len(flushed) :
       /\ flushed[k].row # 0
       /\ flushed[k].chunks = <<ChunkBig, ChunkBig, ChunkLine>>
       /\ command_logs[flushed[k].row].output = <<Run("x", 9997)>> \o ChunkLine
  /\ \E k \in 1..Len(flushed) :
       /\ flushed[k].row # 0
       /\ flushed[k].chunks = <<>>
       /\ command_logs[flushed[k].row].output = <<>>

\* C32: no step of analysis:analyze makes a row completed: every row that is
\* completed after the step was the same completed row before it, and the signals the
\* step reports never say completed.
C32_EngineNeverCompletes ==
  [][lastOp'.op = "analysis:analyze"
       => /\ \A r \in attack_path_progress' :
               r.status = "completed"
                 => r \in attack_path_progress
          /\ lastOp'.result = "Success"
               => \A k \in 1..Len(lastOp'.pathProgress) :
                    lastOp'.pathProgress[k].status # "completed"]_vars

\* C32 witness: analyze wrote its signal to a row of the path that the operator had
\* left in progress, and the row is not completed.
C32_Witness ==
  /\ lastOp.op = "analysis:analyze"
  /\ lastOp.result = "Success"
  /\ lastOp.pathProgress # <<>>
  /\ \E r \in attack_path_progress :
       /\ r.target_id = lastOp.targetId
       /\ r.path_id = lastOp.pathProgress[1].path
       /\ r.step_id = "recon-1"
       /\ r.status = "detected"

\* The row of table rows with the id of row r, as a set of zero or one rows.
RowBefore(rows, r) == {o \in rows : o.id = r.id}

\* C33 as stated: on every step, an entry that becomes completed (it was absent or had
\* another status) has completed_at set afterwards, and an entry whose completed_at
\* holds a timestamp it did not hold before has just become completed.
C33_CompletedAtOnTransition ==
  [][\A r \in attack_path_progress' :
       LET before == RowBefore(attack_path_progress, r)
           entered == /\ r.status = "completed"
                      /\ \A o \in before : o.status # "completed"
       IN /\ entered => r.completed_at # NoTime
          /\ (r.completed_at # NoTime /\ \A o \in before : o.completed_at # r.completed_at)
               => entered]_vars

\* The events of one session: an inbound chunk, terminal:logCommand, terminal:close
\* and the close of the channel.
SessionEvents == {"channel:data", "terminal:logCommand", "terminal:close", "channel:close"}

\* C34: a step that is an event of one session leaves every other session's
\* pendingCommand, commandStartTime and outputBuffer as they were, and leaves every
\* other session in the registry or out of it as it was.
C34_SessionsIndependent ==
  [][lastOp'.op \in SessionEvents
       => \A u \in TermIds \ {lastOp'.terminalId} :
            /\ session'[u] = session[u]
            /\ (u \in terminals') = (u \in terminals)]_vars

\* C34 witness: a prompt chunk has completed the command of one session (its row is
\* stored and its pending command cleared) while another registered session holds a
\* pending command with captured output.
C34_Witness ==
  /\ lastOp.op = "channel:data"
  /\ ChunkIsPrompt[lastOp.data]
  /\ ~HasPending(session[lastOp.terminalId])
  /\ \E k \in 1..Len(flushed) : flushed[k].terminal = lastOp.terminalId
  /\ \E u \in terminals \ {lastOp.terminalId} :
       /\ HasPending(session[u])
       /\ session[u].outputBuffer # <<>>

\* C35: a step of analysis:analyze on a text in which no service is detected leaves
\* the stored detectedServices and lastScanTime of every target unchanged, and one on
\* a text that raises no path signal leaves every attack path progress entry unchanged.
C35_NothingDetectedNothingStored ==
  [][lastOp'.op = "analysis:analyze"
       => /\ ServicesOf[lastOp'.text] = <<>> => targetMeta' = targetMeta
          /\ PathsOf[lastOp'.text] = <<>> => attack_path_progress' = attack_path_progress]_vars

\* C35 witness: analyze of a text with no service and no path signal has answered for
\* the target whose stored services and progress entries an earlier analysis wrote.
C35_Witness ==
  /\ lastOp.op = "analysis:analyze"
  /\ lastOp.targetId = "t1"
  /\ lastOp.result = "Success"
  /\ lastOp.services = <<>>
  /\ lastOp.pathProgress = <<>>
  /\ targetMeta["t1"].detectedServices # <<>>
  /\ targetMeta["t1"].lastScanTime # NoTime
  /\ attack_path_progress # {}

\* C36 as stated: while the client held in sshClient is ready and the phase is
\* Connected with connectionStartTime set, a close or error event of any other client
\* leaves the phase Connected and connectionStartTime as it was.
C36_StaleEventsIgnored ==
  [][(/\ sshClient # NoClient
      /\ client[sshClient] = "ready"
      /\ vmStatus.connected
      /\ connectionStartTime # NoTime
      /\ lastOp'.op \in {"close", "error"}
      /\ lastOp'.client # sshClient)
       => /\ vmStatus'.connected
          /\ connectionStartTime' = connectionStartTime]_vars

\* C37 as stated: the promise of every vm:connect call is eventually settled.
C37_ConnectReturns ==
  \A c \in ClientIds : (connectPromise[c] = "pending") ~> (connectPromise[c] # "pending")

\* C38 as stated: once terminal:close has returned for a session (its id is out of the
\* registry and close() was called on its channel), a data or stderr callback of the
\* channel broadcasts nothing and leaves the session's outputBuffer as it was.
C38_SilentAfterClose ==
  [][(/\ lastOp'.op \in {"channel:data", "channel:stderr"}
      /\ channel[lastOp'.terminalId].state = "closing"
      /\ lastOp'.terminalId \notin terminals)
       => /\ lastOp'.events = <<>>
          /\ session'[lastOp'.terminalId].outputBuffer
               = session[lastOp'.terminalId].outputBuffer]_vars

\* The input datum carries a line end: the shell runs what was typed or pasted.
Submits(data) == \E k \in 1..Len(data) : data[k] \in {"CR", "LF"}

\* C39 as stated: terminal.onData always issues the write of its datum, as its last
\* request; when the datum is Enter and the inputBuffer is not empty, the request
\* before the write is the logCommand of the buffered command and the buffer is
\* empty afterwards; and a datum that submits non-blank text to the shell is written
\* only after a logCommand.
C39_LoggedBeforeWritten ==
  [][lastOp'.op = "terminal.onData"
       => LET t == lastOp'.terminalId
              requests == lastOp'.requests
              inputBuffer == managedTerminals[t].inputBuffer
          IN /\ requests # <<>>
             /\ requests[Len(requests)] = WriteRequest(t, lastOp'.data)
             /\ (lastOp'.data \in {<<"CR">>, <<"LF">>} /\ inputBuffer # <<>>)
                  => /\ Len(requests) = 2
                     /\ requests[1].api = "logCommand"
                     /\ managedTerminals'[t].inputBuffer = <<>>
             /\ (Submits(lastOp'.data) /\ Trim(inputBuffer \o Printable(lastOp'.data)) # <<>>)
                  => requests[1].api = "logCommand"]_vars

\* C40 as stated: after db:attackPaths:updateProgress with no notes and no findings
\* count, every entry stored before is still stored with the notes and findings_count
\* it had, and every entry other than the addressed one is unchanged.
C40_DetailsKept ==
  [][(/\ lastOp'.op = "db:attackPaths:updateProgress"
      /\ lastOp'.result = "Success"
      /\ lastOp'.data.notes = Undef
      /\ lastOp'.data.findingsCount = 0)
       => \A r \in attack_path_progress :
            \E q \in attack_path_progress' :
              /\ q.id = r.id
              /\ q.notes = r.notes
              /\ q.findings_count = r.findings_count
              /\ (~(/\ r.target_id = lastOp'.targetId
                    /\ r.path_id = lastOp'.pathId
                    /\ r.step_id = lastOp'.data.stepId)
                    => q = r)]_vars

====
